---------------------------- MODULE Spec2Model ----------------------------
(***************************************************************************)
(* PayFort payment-gateway adapter (zeitlabs-payfort).                     *)
(*                                                                         *)
(* The model covers the three HTTP handlers of payfort/views.py            *)
(* (PayFortReturnView.post, PayfortFeedbackView.post,                      *)
(* PayFortStatusView.get), the initiation parameters of                    *)
(* payfort/processor.py, and the store they share: carts, transactions,    *)
(* webhook events, invoices.  payfort/helpers.py and the zeitlabs_payments *)
(* collaborator (handle_payment, create_invoice, fulfill_cart) are not     *)
(* part of the sources at hand; they are modelled from the specification   *)
(* and from what the tests observe of them.                                *)
(***************************************************************************)
EXTENDS Naturals, Sequences, FiniteSets, TLC

VARIABLES
    cartStatus,     \* Cart.status of every cart of the store
    transactions,   \* Transaction rows (gateway = 'payfort')
    webhookEvents,  \* WebhookEvent rows written by handle_payment
    invoices,       \* Invoice rows written by create_invoice
    fulfilled,      \* per cart: how many times fulfill_cart completed
    pc,             \* per webhook worker: position in PayfortFeedbackView.post
    req,            \* per webhook worker: the request it is handling
    last            \* the response the latest step handed to the transport layer

vars == <<cartStatus, transactions, webhookEvents, invoices, fulfilled, pc, req, last>>

store == <<cartStatus, transactions, webhookEvents, invoices, fulfilled>>

-----------------------------------------------------------------------------
(* Bounds and input sets *)

\* webhook deliveries that may be in flight at the same time
MaxInFlight == 2

Workers == 1..MaxInFlight

\* rows of the cart table and of the site table; the ids differ on purpose, so
\* that a reference "<site>-<cart>" read the wrong way round resolves nothing
Carts == {1, 3}
Sites == {2}

PENDING == "pending"
PROCESSING == "processing"
PAID == "paid"
CartStates == {PENDING, PROCESSING, PAID}

SLUG == "payfort"

\* PAYFORT_SETTINGS of the test settings: the two secret phrases
REQUEST_SHA_PHRASE == "test-request-phrase"
RESPONSE_SHA_PHRASE == "test-response-phrase"

SUCCESS_STATUS == "14"

\* marker of a key that the form data does not carry (dict.get -> None)
Absent == "<absent>"

\* AuditLog.AuditActions
DUPLICATE_TRANSACTION == "duplicate_transaction_detected"
BAD_RESPONSE_SIGNATURE == "bad_response_signature"
RECEIVED_RESPONSE == "received_gateway_response"
RESPONSE_INVALID_CART == "response_for_invalid_cart"
TRANSACTION_ROLLED_BACK == "transaction_rolled_back"
CART_FULFILLED == "cart_fulfilled"

\* merchant_reference values, as character sequences; <<>> is a missing or
\* empty field (both are falsy for `not POST.get('merchant_reference')`)
References ==
    { <<>>,
      <<"x">>,
      <<"2", "-", "1">>,
      <<"2", "-", "3">>,
      <<"1", "-", "3">>,
      <<"2", "-", "9">> }

FortIds == {"t1", "t2"}
Amounts == {"150", "999"}
Statuses == {SUCCESS_STATUS, "20", Absent}


NoCart == 0
NoSite == 0

-----------------------------------------------------------------------------
(* The merchant reference and the resolvers of PayFortBaseView *)

Digits == {"0", "1", "2", "3", "4", "5", "6", "7", "8", "9"}

DigitValue(c) ==
    CASE c = "0" -> 0 [] c = "1" -> 1 [] c = "2" -> 2 [] c = "3" -> 3
      [] c = "4" -> 4 [] c = "5" -> 5 [] c = "6" -> 6 [] c = "7" -> 7
      [] c = "8" -> 8 [] c = "9" -> 9

\* position of the first '-' of s, 0 when there is none
FirstDash(s) ==
    IF \E i \in 1..Len(s) : s[i] = "-"
    THEN CHOOSE i \in 1..Len(s) : s[i] = "-" /\ \A j \in 1..(i - 1) : s[j] # "-"
    ELSE 0

\* reference.split('-', 1): one part when there is no dash, two otherwise
Split(s) ==
    IF FirstDash(s) = 0
    THEN <<s>>
    ELSE <<SubSeq(s, 1, FirstDash(s) - 1), SubSeq(s, FirstDash(s) + 1, Len(s))>>

IsNumber(s) == Len(s) > 0 /\ \A i \in 1..Len(s) : s[i] \in Digits

RECURSIVE ToInt(_)
ToInt(s) ==
    IF Len(s) = 0 THEN 0
    ELSE 10 * ToInt(SubSeq(s, 1, Len(s) - 1)) + DigitValue(s[Len(s)])

\* BaseProcessor.get_cart: the cart row with that id, NoCart when the lookup
\* fails (InvalidCartError, or ValueError for an id that is no number)
GetCart(cart_id) ==
    IF IsNumber(cart_id) /\ ToInt(cart_id) \in Carts THEN ToInt(cart_id) ELSE NoCart

\* BaseProcessor.get_site: the site row with that id, NoSite when the lookup fails
GetSite(site_id) ==
    IF IsNumber(site_id) /\ ToInt(site_id) \in Sites THEN ToInt(site_id) ELSE NoSite

Audit(action, cart, context) == [action |-> action, cart |-> cart, context |-> context]

InvalidCartAudit(cart, cart_status) ==
    Audit(RESPONSE_INVALID_CART, cart,
          [cart_status |-> cart_status, required_cart_state |-> PROCESSING])

\* PayFortBaseView.cart: every evaluation looks the cart up again, and audits
\* and logs an error again when the lookup fails
CartProperty(reference) ==
    IF reference = <<>>
    THEN [cart |-> NoCart, audits |-> <<>>, logs |-> <<>>]
    ELSE IF Len(Split(reference)) # 2 \/ GetCart(Split(reference)[2]) = NoCart
         THEN [cart |-> NoCart, audits |-> <<InvalidCartAudit(NoCart, "None")>>,
               logs |-> <<"error">>]
         ELSE [cart |-> GetCart(Split(reference)[2]), audits |-> <<>>,
               logs |-> <<>>]

\* PayFortBaseView.site: it writes no audit row, and logs an error when the
\* lookup fails
SiteProperty(reference) ==
    IF reference = <<>>
    THEN [site |-> NoSite, logs |-> <<>>]
    ELSE IF Len(Split(reference)) # 2 \/ GetSite(Split(reference)[1]) = NoSite
         THEN [site |-> NoSite, logs |-> <<"error">>]
         ELSE [site |-> GetSite(Split(reference)[1]), logs |-> <<>>]

-----------------------------------------------------------------------------
(* payfort/helpers.py: signature codec and response validator *)

\* every key of the field maps of the model, in ascending order of the
\* lower-cased key: the order the codec sorts the fields into
KeyOrder ==
    <<"access_code", "amount", "command", "csrfmiddlewaretoken", "currency",
      "customer_email", "fort_id", "language", "merchant_identifier",
      "merchant_reference", "order_description", "payment_page_url", "return_url",
      "signature", "status">>

\* form data carries a key or not; an inbound field the sender left out is
\* kept in the map with a marker
IsAbsent(key, value) ==
    IF key = "merchant_reference" THEN value = <<>>
    ELSE IF key \in {"status", "fort_id"} THEN value = Absent
    ELSE FALSE

\* the key=value pairs of the fields that are present, the signature field
\* excluded, in signing order
Canonical(data) ==
    LET present == SelectSeq(KeyOrder,
                             LAMBDA k : /\ k \in DOMAIN data
                                        /\ k # "signature"
                                        /\ ~IsAbsent(k, data[k]))
    IN  [i \in 1..Len(present) |-> <<present[i], data[present[i]]>>]

\* get_signature: digest of phrase || canonical string || phrase.  The digest
\* is taken to be injective, so the signature is the pair it was computed from.
GetSignature(sha_phrase, data) ==
    [phrase |-> sha_phrase, content |-> Canonical(data)]

NoSignature == [phrase |-> Absent, content |-> <<>>]

\* verify_signature: TRUE when the claimed signature is the computed one
\* (the code raises PayFortBadSignatureException otherwise)
VerifySignature(sha_phrase, data) ==
    data.signature = GetSignature(sha_phrase, data)

\* verify_response_format: every mandatory field is present and non-empty
\* (the code raises PayFortException otherwise)
VerifyResponseFormat(data) ==
    \A k \in {"fort_id", "status", "amount", "merchant_reference"} :
        k \in DOMAIN data /\ ~IsAbsent(k, data[k])

-----------------------------------------------------------------------------
(* payfort/helpers.py: get_signature and verify_signature on strings of
   characters.  GetSignature above keeps a field map as a record and a value
   as one token; here a field map is the sequence of its (key, value) pairs
   in the order they were inserted, and keys, values and phrases are
   sequences of characters, so that sorting, case and concatenation are
   computed. *)

Uppercase ==
    <<"A", "B", "C", "D", "E", "F", "G", "H", "I", "J", "K", "L", "M",
      "N", "O", "P", "Q", "R", "S", "T", "U", "V", "W", "X", "Y", "Z">>

Lowercase ==
    <<"a", "b", "c", "d", "e", "f", "g", "h", "i", "j", "k", "l", "m",
      "n", "o", "p", "q", "r", "s", "t", "u", "v", "w", "x", "y", "z">>

IndexIn(seq, c) == CHOOSE i \in 1..Len(seq) : seq[i] = c

IsIn(seq, c) == \E i \in 1..Len(seq) : seq[i] = c

\* ord(c): the code point that string comparison goes by
Ord(c) ==
    IF IsIn(Uppercase, c) THEN 64 + IndexIn(Uppercase, c)
    ELSE IF IsIn(Lowercase, c) THEN 96 + IndexIn(Lowercase, c)
    ELSE IF c \in Digits THEN 48 + DigitValue(c)
    ELSE IF c = "-" THEN 45
    ELSE IF c = "=" THEN 61
    ELSE 95

\* str.lower
Lower(str) ==
    [i \in 1..Len(str) |->
        IF IsIn(Uppercase, str[i]) THEN Lowercase[IndexIn(Uppercase, str[i])] ELSE str[i]]

\* a < b on strings: the first differing character decides, a proper prefix
\* is the smaller
Less(a, b) ==
    \E i \in 1..Len(b) :
        /\ Len(a) >= i - 1
        /\ \A j \in 1..(i - 1) : a[j] = b[j]
        /\ (Len(a) = i - 1 \/ Ord(a[i]) < Ord(b[i]))

SIGNATURE == <<"s", "i", "g", "n", "a", "t", "u", "r", "e">>

\* a sort that compares the keys as they are written
RECURSIVE SortedRaw(_)
SortedRaw(fields) ==
    IF fields = <<>> THEN <<>>
    ELSE LET n == Len(fields)
             rest == SortedRaw(SubSeq(fields, 1, n - 1))
             k == Cardinality({i \in 1..Len(rest) : ~Less(fields[n][1], rest[i][1])})
         IN  SubSeq(rest, 1, k) \o <<fields[n]>> \o SubSeq(rest, k + 1, Len(rest))

\* sorted(params, key=str.lower): ascending by the lower-cased key; the sort
\* is stable, keys that are equal when lower-cased stay in insertion order
RECURSIVE SortedByLower(_)
SortedByLower(fields) ==
    IF fields = <<>> THEN <<>>
    ELSE LET n == Len(fields)
             rest == SortedByLower(SubSeq(fields, 1, n - 1))
             k == Cardinality({i \in 1..Len(rest) :
                                  ~Less(Lower(fields[n][1]), Lower(rest[i][1]))})
         IN  SubSeq(rest, 1, k) \o <<fields[n]>> \o SubSeq(rest, k + 1, Len(rest))

\* a codec that signs the signature field like any other
KeepSignature(fields) == fields

\* params.pop('signature')
WithoutSignature(fields) == SelectSeq(fields, LAMBDA f : f[1] # SIGNATURE)

\* ''.join(f'{key}={value}')
RECURSIVE Join(_)
Join(fields) ==
    IF fields = <<>> THEN <<>>
    ELSE fields[1][1] \o <<"=">> \o fields[1][2] \o Join(Tail(fields))

\* the string that is hashed
CanonicalString(sha_phrase, fields) ==
    sha_phrase \o Join(SortedByLower(WithoutSignature(fields))) \o sha_phrase

\* get_signature on a pair sequence.  The digest is taken to be injective:
\* the string that is hashed stands for its digest.
Sign(sha_phrase, fields) == CanonicalString(sha_phrase, fields)

HasField(fields, key) == \E i \in 1..Len(fields) : fields[i][1] = key

\* params.get(key)
Field(fields, key) ==
    IF HasField(fields, key)
    THEN fields[CHOOSE i \in 1..Len(fields) : fields[i][1] = key][2]
    ELSE <<Absent>>

\* params[key] = value: a new key goes last, an old one keeps its place
SetField(fields, key, value) ==
    IF HasField(fields, key)
    THEN [i \in 1..Len(fields) |-> IF fields[i][1] = key THEN <<key, value>> ELSE fields[i]]
    ELSE Append(fields, <<key, value>>)

\* verify_signature on a pair sequence
Verify(sha_phrase, fields) == Field(fields, SIGNATURE) = Sign(sha_phrase, fields)

\* the inputs of the codec: field maps of up to MaxFields fields
MaxFields == 3

CodecKeys == {<<"a">>, <<"A">>, <<"B">>, <<"a", "b">>, <<"a", "_">>, SIGNATURE}

CodecValues == {<<"1">>, <<"a", "=">>}

Phrases == {<<"p">>, <<"p", "p">>}

\* a dict holds a key once
FieldSeqs ==
    {m \in UNION {[1..n -> CodecKeys \X CodecValues] : n \in 0..MaxFields} :
        \A i, j \in 1..Len(m) : i # j => m[i][1] # m[j][1]}

-----------------------------------------------------------------------------
(* Inbound form data *)

\* The fields the handlers branch on.  response_message, payment_option,
\* currency and acquirer_response_message are taken to be always present.
FieldMaps ==
    [merchant_reference : References, status : Statuses,
     fort_id : FortIds \cup {Absent}, amount : Amounts]

WithSignature(f, s) ==
    [merchant_reference |-> f.merchant_reference, status |-> f.status,
     fort_id |-> f.fort_id, amount |-> f.amount, signature |-> s]

\* every field map, signed by the PSP (response phrase), signed with the wrong
\* phrase, or carrying no signature at all
Payloads ==
    UNION { { WithSignature(f, GetSignature(RESPONSE_SHA_PHRASE, f)),
              WithSignature(f, GetSignature(REQUEST_SHA_PHRASE, f)),
              WithSignature(f, NoSignature) } : f \in FieldMaps }

-----------------------------------------------------------------------------
(* Requests and responses *)

NoResp == [op |-> "none"]
NoReq == [op |-> "none"]

\* What a handler hands back, with the trace of what it did on the way:
\*   data    the form data or query parameters it was called with
\*   pre     the status of the resolved cart when the handler read it ("n/a"
\*           when no cart was resolved)
\*   branch  the terminal branch of the handler
\*   http    the HTTP status (500: an exception left the handler)
\*   audits  the AuditLog rows it wrote, in order
\*   calls   the collaborator operations it invoked, in order
\*   logs    the logger calls it made, in order
\*   error   the exception raised on the way, "none" when there was none
\*   body    the template context or JSON body
Response(op, data, pre, branch, http, audits, calls, logs, error, body) ==
    [op |-> op, data |-> data, pre |-> pre, branch |-> branch, http |-> http,
     audits |-> audits, calls |-> calls, logs |-> logs, error |-> error,
     body |-> body]

NoBody == [none |-> TRUE]

Contains(seq, x) == \E i \in 1..Len(seq) : seq[i] = x

Count(seq, x) == Cardinality({i \in 1..Len(seq) : seq[i] = x})

ActionsOf(audits) == [i \in 1..Len(audits) |-> audits[i].action]

-----------------------------------------------------------------------------
(* The zeitlabs_payments collaborator *)

\* a transaction row that records the amount the cart was offered for
Transaction_OrderTotal(cart, data) ==
    [gateway |-> SLUG, gateway_transaction_id |-> data.fort_id, cart |-> cart,
     amount |-> "150", response |-> data]

Transaction(cart, data) ==
    [gateway |-> SLUG, gateway_transaction_id |-> data.fort_id, cart |-> cart,
     amount |-> data.amount, response |-> data]

Invoice(cart, transaction_id) ==
    [cart |-> cart, status |-> PAID, related_transaction |-> transaction_id,
     invoice_number |-> <<"INV", transaction_id>>]

\* where handle_payment may fail with an unexpected error: before it wrote
\* anything, or after it inserted the transaction row
Faults == {"none", "early", "late"}

\* BaseProcessor.handle_payment, run inside the caller's atomic scope: the
\* rows as its writes leave them, and how it ended.
\*   duplicate  a row with this gateway and transaction id exists
\*   error      any other failure
\*   ok         transaction row and webhook event inserted, cart set to PAID
HandlePayment(txs, events, status, cart, data, fault) ==
    IF fault = "early"
    THEN [outcome |-> "error", transactions |-> txs, webhookEvents |-> events,
          cartStatus |-> status]
    ELSE IF \E t \in txs : t.gateway = SLUG /\ t.gateway_transaction_id = data.fort_id
    THEN [outcome |-> "duplicate", transactions |-> txs, webhookEvents |-> events,
          cartStatus |-> status]
    ELSE IF fault = "late"
    THEN [outcome |-> "error", transactions |-> txs \cup {Transaction(cart, data)},
          webhookEvents |-> events, cartStatus |-> status]
    ELSE [outcome |-> "ok", transactions |-> txs \cup {Transaction(cart, data)},
          webhookEvents |-> events \cup {data},
          cartStatus |-> [status EXCEPT ![cart] = PAID]]

\* a scope that keeps the writes of a block an exception left
Atomic_NoRollback(before, after, committed) == after

\* with transaction.atomic(): the writes of the block are kept when it ends
\* normally and undone when an exception leaves it
Atomic(before, after, committed) == IF committed THEN after ELSE before

-----------------------------------------------------------------------------
(* PayfortFeedbackView.post: the server-to-server webhook *)

\* Handlers that differ from the code in one check; the properties at the end
\* of the module tell each of them from the handler of the code.
\*   NoGuard        the order state is not looked at
\*   GuardPaidOnly  only a Paid order is turned away
\*   InvertedGuard  a Processing order is turned away, any other is settled
\*   NoSignature    the signature is not verified
\*   SignatureFirst the signature is verified before the reference is resolved
FeedbackBranch_NoGuard(cart, site, signature_ok, success, format_ok, cart_status) ==
    IF cart = NoCart \/ site = NoSite THEN "unresolvable"
    ELSE IF ~signature_ok THEN "bad_signature"
    ELSE IF ~success THEN "unsuccessful"
    ELSE IF ~format_ok THEN "invalid_format"
    ELSE "settle"

FeedbackBranch_GuardPaidOnly(cart, site, signature_ok, success, format_ok, cart_status) ==
    IF cart = NoCart \/ site = NoSite THEN "unresolvable"
    ELSE IF ~signature_ok THEN "bad_signature"
    ELSE IF ~success THEN "unsuccessful"
    ELSE IF ~format_ok THEN "invalid_format"
    ELSE IF cart_status = PAID THEN "stale"
    ELSE "settle"

FeedbackBranch_InvertedGuard(cart, site, signature_ok, success, format_ok, cart_status) ==
    IF cart = NoCart \/ site = NoSite THEN "unresolvable"
    ELSE IF ~signature_ok THEN "bad_signature"
    ELSE IF ~success THEN "unsuccessful"
    ELSE IF ~format_ok THEN "invalid_format"
    ELSE IF cart_status = PROCESSING THEN "stale"
    ELSE "settle"

FeedbackBranch_SignatureFirst(cart, site, signature_ok, success, format_ok, cart_status) ==
    IF ~signature_ok THEN "bad_signature"
    ELSE IF cart = NoCart \/ site = NoSite THEN "unresolvable"
    ELSE IF ~success THEN "unsuccessful"
    ELSE IF ~format_ok THEN "invalid_format"
    ELSE IF cart_status # PROCESSING THEN "stale"
    ELSE "settle"

FeedbackBranch_NoSignature(cart, site, signature_ok, success, format_ok, cart_status) ==
    IF cart = NoCart \/ site = NoSite THEN "unresolvable"
    ELSE IF ~success THEN "unsuccessful"
    ELSE IF ~format_ok THEN "invalid_format"
    ELSE IF cart_status # PROCESSING THEN "stale"
    ELSE "settle"

\* a handler that validates the format before it looks at the status
FeedbackBranch_FormatBeforeStatus(cart, site, signature_ok, success, format_ok, cart_status) ==
    IF cart = NoCart \/ site = NoSite THEN "unresolvable"
    ELSE IF ~signature_ok THEN "bad_signature"
    ELSE IF ~format_ok THEN "invalid_format"
    ELSE IF ~success THEN "unsuccessful"
    ELSE IF cart_status # PROCESSING THEN "stale"
    ELSE "settle"

\* a handler that checks the state of the order before the status
FeedbackBranch_GuardBeforeStatus(cart, site, signature_ok, success, format_ok, cart_status) ==
    IF cart = NoCart \/ site = NoSite THEN "unresolvable"
    ELSE IF ~signature_ok THEN "bad_signature"
    ELSE IF cart_status # PROCESSING THEN "stale"
    ELSE IF ~success THEN "unsuccessful"
    ELSE IF ~format_ok THEN "invalid_format"
    ELSE "settle"

\* the checks of lines 143-180, in the order the code makes them
FeedbackBranch(cart, site, signature_ok, success, format_ok, cart_status) ==
    IF cart = NoCart \/ site = NoSite THEN "unresolvable"
    ELSE IF ~signature_ok THEN "bad_signature"
    ELSE IF ~success THEN "unsuccessful"
    ELSE IF ~format_ok THEN "invalid_format"
    ELSE IF cart_status # PROCESSING THEN "stale"
    ELSE "settle"

\* a handler that answers a bad signature like every later branch
FeedbackHttp_BadSignature200(branch) ==
    CASE branch = "unresolvable" -> 400
      [] branch = "invalid_format" -> 500
      [] OTHER -> 200

FeedbackHttp(branch) ==
    CASE branch = "unresolvable" -> 400
      [] branch = "bad_signature" -> 400
      [] branch = "invalid_format" -> 500
      [] OTHER -> 200

StatusRead(cart) == IF cart = NoCart THEN "n/a" ELSE cartStatus[cart]

\* a handler that writes RECEIVED_RESPONSE after it resolved cart and site
FeedbackAudits_ReceivedAfterResolution(data, branch) ==
    LET c == CartProperty(data.merchant_reference)
    IN  c.audits
          \o (IF branch = "unresolvable" THEN <<>>
              ELSE <<Audit(RECEIVED_RESPONSE, c.cart, [data |-> data])>>)
          \o (CASE branch = "bad_signature" ->
                     <<Audit(BAD_RESPONSE_SIGNATURE, c.cart, [data |-> data])>>
                [] branch = "stale" ->
                     <<Audit(RESPONSE_INVALID_CART, c.cart,
                             [cart_status |-> cartStatus[c.cart],
                              required_cart_state |-> PROCESSING])>>
                [] OTHER -> <<>>)

\* a handler that keeps the cart it resolved first and does not look it up
\* a second time
FeedbackAudits_ResolvesOnce(data, branch) ==
    LET c == CartProperty(data.merchant_reference)
    IN  c.audits
          \o <<Audit(RECEIVED_RESPONSE, c.cart, [data |-> data])>>
          \o (CASE branch = "bad_signature" ->
                     <<Audit(BAD_RESPONSE_SIGNATURE, c.cart, [data |-> data])>>
                [] branch = "stale" ->
                     <<InvalidCartAudit(c.cart, StatusRead(c.cart))>>
                [] OTHER -> <<>>)

\* the audit rows of lines 136-180: RECEIVED_RESPONSE first (its cart argument
\* evaluates the cart property), then the second evaluation of the property
\* at line 143, then the row of the terminal branch
FeedbackAudits(data, branch) ==
    LET c == CartProperty(data.merchant_reference)
    IN  c.audits
          \o <<Audit(RECEIVED_RESPONSE, c.cart, [data |-> data])>>
          \o c.audits
          \o (CASE branch = "bad_signature" ->
                     <<Audit(BAD_RESPONSE_SIGNATURE, c.cart, [data |-> data])>>
                [] branch = "stale" ->
                     <<InvalidCartAudit(c.cart, StatusRead(c.cart))>>
                [] OTHER -> <<>>)

FeedbackError(branch) ==
    CASE branch = "bad_signature" -> "PayFortBadSignatureException"
      [] branch = "invalid_format" -> "PayFortException"
      [] OTHER -> "none"

\* the logger calls of lines 136-180: those of the cart property at line 138
\* and again at line 143, those of the site property at line 143 (evaluated
\* only when the cart was found), then the call of the terminal branch
FeedbackLogs(data, branch) ==
    LET c == CartProperty(data.merchant_reference)
        s == SiteProperty(data.merchant_reference)
    IN  c.logs
          \o c.logs
          \o (IF c.cart # NoCart THEN s.logs ELSE <<>>)
          \o (CASE branch = "unresolvable" -> <<"warning">>
                [] branch = "bad_signature" -> <<"error">>
                [] branch = "unsuccessful" -> <<"warning">>
                [] branch = "stale" -> <<"warning">>
                [] OTHER -> <<>>)

\* lines 133-180: from the arrival of the form data to the state guard
FeedbackReceive(w, data) ==
    /\ last = NoResp
    /\ pc[w] = "idle"
    /\ LET cart == CartProperty(data.merchant_reference).cart
           site == SiteProperty(data.merchant_reference).site
           branch == FeedbackBranch(cart, site,
                                    VerifySignature(RESPONSE_SHA_PHRASE, data),
                                    data.status = SUCCESS_STATUS,
                                    VerifyResponseFormat(data),
                                    StatusRead(cart))
       IN  IF branch = "settle"
           THEN /\ pc' = [pc EXCEPT ![w] = "settle"]
                /\ req' = [req EXCEPT ![w] =
                              [op |-> "feedback", data |-> data, cart |-> cart,
                               site |-> site, pre |-> StatusRead(cart),
                               audits |-> FeedbackAudits(data, branch),
                               logs |-> FeedbackLogs(data, branch)]]
                /\ last' = last
           ELSE /\ last' = Response("feedback", data, StatusRead(cart), branch,
                                    FeedbackHttp(branch),
                                    FeedbackAudits(data, branch), <<>>,
                                    FeedbackLogs(data, branch),
                                    FeedbackError(branch),
                                    NoBody)
                /\ UNCHANGED <<pc, req>>
    /\ UNCHANGED store

\* a try statement without the DuplicateTransactionError clause
SettleBranch_DuplicateAsError(outcome) ==
    CASE outcome = "ok" -> "fulfill"
      [] OTHER -> "rolled_back"

\* lines 182-219, the try statement around the atomic scope: where the
\* handler goes for each way handle_payment can end
SettleBranch(outcome) ==
    CASE outcome = "ok" -> "fulfill"
      [] outcome = "duplicate" -> "duplicate"
      [] OTHER -> "rolled_back"

\* a handler that writes the rolled-back row in both exception branches
SettleAudit_AlwaysRolledBack(branch, r, cart_status) ==
    Audit(TRANSACTION_ROLLED_BACK, r.cart,
          [transaction_id |-> r.data.fort_id, cart_id |-> r.cart,
           site_id |-> r.site])

\* the audit row of the branch the settlement ended in; self.cart.status is
\* read again after the scope was left
SettleAudit(branch, r, cart_status) ==
    IF branch = "duplicate"
    THEN Audit(DUPLICATE_TRANSACTION, r.cart,
               [transaction_id |-> r.data.fort_id, cart_status |-> cart_status])
    ELSE Audit(TRANSACTION_ROLLED_BACK, r.cart,
               [transaction_id |-> r.data.fort_id, cart_id |-> r.cart,
                site_id |-> r.site])

\* lines 182-219: handle_payment inside the atomic scope, and the two
\* exception branches
FeedbackSettle(w) ==
    /\ last = NoResp
    /\ pc[w] = "settle"
    /\ \E fault \in Faults :
         LET r == req[w]
             hp == HandlePayment(transactions, webhookEvents, cartStatus,
                                 r.cart, r.data, fault)
             committed == hp.outcome = "ok"
             branch == SettleBranch(hp.outcome)
         IN  /\ transactions' = Atomic(transactions, hp.transactions, committed)
             /\ webhookEvents' = Atomic(webhookEvents, hp.webhookEvents, committed)
             /\ cartStatus' = Atomic(cartStatus, hp.cartStatus, committed)
             /\ IF branch = "fulfill"
                THEN /\ pc' = [pc EXCEPT ![w] = "fulfill"]
                     /\ req' = req
                     /\ last' = last
                ELSE /\ pc' = [pc EXCEPT ![w] = "idle"]
                     /\ req' = [req EXCEPT ![w] = NoReq]
                     /\ last' = Response("feedback", r.data, r.pre, branch, 200,
                                   Append(r.audits,
                                          SettleAudit(branch, r, cartStatus'[r.cart])),
                                   <<"handle_payment">>,
                                   r.logs \o (IF branch = "duplicate"
                                               THEN <<"info">>
                                               ELSE <<"info", "error">>),
                                   IF hp.outcome = "duplicate"
                                   THEN "DuplicateTransactionError"
                                   ELSE "HandlePaymentError",
                                   NoBody)
    /\ UNCHANGED <<invoices, fulfilled>>

\* a handler that lets the failure of the best-effort block out
FulfillHttp_Raises(branch) == IF branch = "fulfilled" THEN 200 ELSE 500

\* line 234: the status returned after the best-effort block, whatever
\* happened in it
FulfillHttp(branch) == 200

\* where lines 222-223 may fail: in refresh_from_db, or in create_invoice
InvoiceFaults == {"none", "refresh", "invoice"}

\* the answer of a delivery that ended inside the best-effort block
FulfillResponse(r, branch, audits, calls, logs, error) ==
    Response("feedback", r.data, r.pre, branch, FulfillHttp(branch), audits,
             calls, r.logs \o logs, error, NoBody)

\* a best-effort block that goes on to fulfill_cart and to the audit row
\* when create_invoice has failed
FeedbackInvoice_IgnoresInvoiceFailure(w) ==
    /\ last = NoResp
    /\ pc[w] = "fulfill"
    /\ \E fault \in InvoiceFaults :
         LET r == req[w]
         IN  IF fault = "refresh"
             THEN /\ invoices' = invoices
                  /\ pc' = [pc EXCEPT ![w] = "idle"]
                  /\ req' = [req EXCEPT ![w] = NoReq]
                  /\ last' = FulfillResponse(r, "refresh_failed", r.audits,
                                             <<"handle_payment">>,
                                             <<"info", "error">>, "RefreshError")
             ELSE /\ invoices' = IF fault = "invoice" THEN invoices
                                 ELSE invoices \cup {Invoice(r.cart, r.data.fort_id)}
                  /\ pc' = [pc EXCEPT ![w] = "fulfill_cart"]
                  /\ req' = req
                  /\ last' = last
    /\ UNCHANGED <<cartStatus, transactions, webhookEvents, fulfilled>>

\* lines 221-223: the cart is read again and the invoice is created; the
\* invoice row is committed when create_invoice returns, before fulfill_cart
\* is called, and a failure of either call ends the block
FeedbackInvoice(w) ==
    /\ last = NoResp
    /\ pc[w] = "fulfill"
    /\ \E fault \in InvoiceFaults :
         LET r == req[w]
         IN  CASE fault = "refresh" ->
                    /\ invoices' = invoices
                    /\ pc' = [pc EXCEPT ![w] = "idle"]
                    /\ req' = [req EXCEPT ![w] = NoReq]
                    /\ last' = FulfillResponse(r, "refresh_failed", r.audits,
                                               <<"handle_payment">>,
                                               <<"info", "error">>, "RefreshError")
               [] fault = "invoice" ->
                    /\ invoices' = invoices
                    /\ pc' = [pc EXCEPT ![w] = "idle"]
                    /\ req' = [req EXCEPT ![w] = NoReq]
                    /\ last' = FulfillResponse(r, "invoice_failed", r.audits,
                                               <<"handle_payment", "create_invoice">>,
                                               <<"info", "error">>, "InvoiceError")
               [] OTHER ->
                    /\ invoices' = invoices \cup {Invoice(r.cart, r.data.fort_id)}
                    /\ pc' = [pc EXCEPT ![w] = "fulfill_cart"]
                    /\ req' = req
                    /\ last' = last
    /\ UNCHANGED <<cartStatus, transactions, webhookEvents, fulfilled>>

\* lines 224-234: fulfillment after the invoice, the audit row when it went
\* through, and the answer
FeedbackFulfill(w) ==
    /\ last = NoResp
    /\ pc[w] = "fulfill_cart"
    /\ \E fulfill_fails \in BOOLEAN :
         LET r == req[w]
             calls == <<"handle_payment", "create_invoice", "fulfill_cart">>
         IN  IF fulfill_fails
             THEN /\ fulfilled' = fulfilled
                  /\ last' = FulfillResponse(r, "fulfill_failed", r.audits, calls,
                                             <<"info", "error">>, "FulfillmentError")
             ELSE /\ fulfilled' = [fulfilled EXCEPT ![r.cart] = @ + 1]
                  /\ last' = FulfillResponse(r, "fulfilled",
                                 Append(r.audits,
                                        Audit(CART_FULFILLED, r.cart, NoBody)),
                                 calls, <<"info", "info">>, "none")
    /\ pc' = [pc EXCEPT ![w] = "idle"]
    /\ req' = [req EXCEPT ![w] = NoReq]
    /\ UNCHANGED <<cartStatus, transactions, webhookEvents, invoices>>

\* the transport layer sends the response off
Respond ==
    /\ last # NoResp
    /\ last' = NoResp
    /\ UNCHANGED <<store, pc, req>>

-----------------------------------------------------------------------------
(* PayFortReturnView.post: the browser redirect callback *)

MAX_ATTEMPTS == 24
WAIT_TIME == 5000

\* a wait page that polls with the merchant reference instead of fort_id
WaitContext_ReferenceAsId(data) ==
    [template |-> "zeitlabs_payments/wait_feedback.html",
     data |-> data,
     ecommerce_transaction_id |-> data.merchant_reference,
     ecommerce_status_url |-> "payfort:status",
     ecommerce_error_url |-> <<"zeitlabs_payments:payment-error", data.merchant_reference>>,
     ecommerce_success_url |-> <<"zeitlabs_payments:payment-success", data.merchant_reference>>,
     ecommerce_max_attempts |-> MAX_ATTEMPTS,
     ecommerce_wait_time |-> WAIT_TIME]

\* the template context of the wait page: the form data plus the polling
\* metadata of lines 107-118
WaitContext(data) ==
    [template |-> "zeitlabs_payments/wait_feedback.html",
     data |-> data,
     ecommerce_transaction_id |-> data.fort_id,
     ecommerce_status_url |-> "payfort:status",
     ecommerce_error_url |-> <<"zeitlabs_payments:payment-error", data.fort_id>>,
     ecommerce_success_url |-> <<"zeitlabs_payments:payment-success", data.fort_id>>,
     ecommerce_max_attempts |-> MAX_ATTEMPTS,
     ecommerce_wait_time |-> WAIT_TIME]

ErrorPage == [template |-> "zeitlabs_payments/payment_error.html"]

\* redirect handlers that leave out the format check, or the signature check
ReturnBranch_NoFormat(signature_ok, success, format_ok) ==
    IF ~signature_ok THEN "bad_signature"
    ELSE IF ~success THEN "failed"
    ELSE "wait"

ReturnBranch_NoSignature(signature_ok, success, format_ok) ==
    IF ~success THEN "failed"
    ELSE IF ~format_ok THEN "invalid_format"
    ELSE "wait"

\* the checks of lines 84-125, in the order the code makes them
ReturnBranch(signature_ok, success, format_ok) ==
    IF ~signature_ok THEN "bad_signature"
    ELSE IF ~success THEN "failed"
    ELSE IF ~format_ok THEN "invalid_format"
    ELSE "wait"

\* a redirect handler that marks the order of a verified success payload Paid
ReturnPost_Settles(data) ==
    /\ last = NoResp
    /\ LET c == CartProperty(data.merchant_reference)
           paid == /\ c.cart # NoCart
                   /\ VerifySignature(RESPONSE_SHA_PHRASE, data)
                   /\ data.status = SUCCESS_STATUS
                   /\ VerifyResponseFormat(data)
       IN  /\ cartStatus' = IF paid THEN [cartStatus EXCEPT ![c.cart] = PAID]
                            ELSE cartStatus
           /\ last' = Response("return", data, StatusRead(c.cart),
                               IF paid THEN "wait" ELSE "failed", 200, <<>>, <<>>,
                               <<>>, "none",
                               IF paid THEN WaitContext(data) ELSE ErrorPage)
    /\ UNCHANGED <<transactions, webhookEvents, invoices, fulfilled, pc, req>>

\* lines 81-125
ReturnPost(data) ==
    /\ last = NoResp
    /\ LET c == CartProperty(data.merchant_reference)
           branch == ReturnBranch(VerifySignature(RESPONSE_SHA_PHRASE, data),
                                  data.status = SUCCESS_STATUS,
                                  VerifyResponseFormat(data))
       IN  last' = Response("return", data, StatusRead(c.cart), branch, 200,
                      IF branch = "bad_signature"
                      THEN Append(c.audits,
                                  Audit(BAD_RESPONSE_SIGNATURE, c.cart, [data |-> data]))
                      ELSE <<>>,
                      <<>>,
                      CASE branch = "wait" -> <<>>
                        [] branch = "bad_signature" -> Append(c.logs, "error")
                        [] OTHER -> <<"error">>,
                      CASE branch = "bad_signature" -> "PayFortBadSignatureException"
                        [] branch = "invalid_format" -> "PayFortException"
                        [] OTHER -> "none",
                      IF branch = "wait" THEN WaitContext(data) ELSE ErrorPage)
    /\ UNCHANGED <<store, pc, req>>

-----------------------------------------------------------------------------
(* PayFortStatusView.get: the status poll *)

\* a poll that answers a Pending order like a Processing one
StatusAnswer_PendingAsProcessing(cart, transaction_id) ==
    LET matching == {i \in invoices : /\ i.cart = cart
                                      /\ i.status = PAID
                                      /\ i.related_transaction = transaction_id}
    IN  IF cartStatus[cart] = PAID /\ matching # {}
        THEN [branch |-> "invoice", http |-> 200,
              body |-> [invoice |-> (CHOOSE i \in matching : TRUE).invoice_number]]
        ELSE IF cartStatus[cart] = PAID
        THEN [branch |-> "paid_no_invoice", http |-> 204,
              body |-> [error |-> "unable to retrieve invoice"]]
        ELSE [branch |-> "processing", http |-> 204,
              body |-> [error |-> cartStatus[cart]]]

\* a poll that takes any PAID invoice of the cart, whatever its transaction
StatusAnswer_AnyInvoice(cart, transaction_id) ==
    LET matching == {i \in invoices : i.cart = cart /\ i.status = PAID}
    IN  IF cartStatus[cart] = PAID /\ matching # {}
        THEN [branch |-> "invoice", http |-> 200,
              body |-> [invoice |-> (CHOOSE i \in matching : TRUE).invoice_number]]
        ELSE IF cartStatus[cart] = PAID
        THEN [branch |-> "paid_no_invoice", http |-> 204,
              body |-> [error |-> "unable to retrieve invoice"]]
        ELSE IF cartStatus[cart] = PROCESSING
        THEN [branch |-> "processing", http |-> 204,
              body |-> [error |-> cartStatus[cart]]]
        ELSE [branch |-> "other_status", http |-> 404,
              body |-> [error |-> cartStatus[cart]]]

\* lines 272-302: the answer for a resolved cart
StatusAnswer(cart, transaction_id) ==
    LET matching == {i \in invoices : /\ i.cart = cart
                                      /\ i.status = PAID
                                      /\ i.related_transaction = transaction_id}
    IN  IF cartStatus[cart] = PAID
        THEN IF matching # {}
             THEN [branch |-> "invoice", http |-> 200,
                   body |-> [invoice |-> (CHOOSE i \in matching : TRUE).invoice_number]]
             ELSE [branch |-> "paid_no_invoice", http |-> 204,
                   body |-> [error |-> "unable to retrieve invoice"]]
        ELSE IF cartStatus[cart] = PROCESSING
             THEN [branch |-> "processing", http |-> 204,
                   body |-> [error |-> cartStatus[cart]]]
             ELSE [branch |-> "other_status", http |-> 404,
                   body |-> [error |-> cartStatus[cart]]]

\* a poll that audits a request without parameters like an invalid reference
StatusGet_AuditsMissingParams(authenticated, transaction_id, merchant_reference) ==
    /\ last = NoResp
    /\ LET data == [authenticated |-> authenticated,
                    transaction_id |-> transaction_id,
                    merchant_reference |-> merchant_reference]
           missing == SelectSeq(<<"transaction_id", "merchant_reference">>,
                                LAMBDA k : IF k = "transaction_id"
                                           THEN transaction_id = Absent
                                           ELSE merchant_reference = <<>>)
           parts == Split(merchant_reference)
           cart == IF Len(parts) = 2 THEN GetCart(parts[2]) ELSE NoCart
       IN  last' =
             IF missing # <<>>
             THEN Response("status", data, "n/a", "missing_params", 400,
                           <<InvalidCartAudit(NoCart, "None")>>, <<>>,
                           <<"error">>, "none", [error |-> missing])
             ELSE IF cart = NoCart
             THEN Response("status", data, "n/a", "invalid_reference", 404,
                           <<InvalidCartAudit(NoCart, "None")>>, <<>>, <<>>,
                           "InvalidCartError", [error |-> merchant_reference])
             ELSE Response("status", data, cartStatus[cart],
                           StatusAnswer(cart, transaction_id).branch,
                           StatusAnswer(cart, transaction_id).http, <<>>, <<>>,
                           IF StatusAnswer(cart, transaction_id).branch = "paid_no_invoice"
                           THEN <<"error">> ELSE <<>>,
                           "none", StatusAnswer(cart, transaction_id).body)
    /\ UNCHANGED <<store, pc, req>>

\* a poll that also wants the site part of the reference to name a site
StatusResponse_ChecksSite(authenticated, transaction_id, merchant_reference) ==
    LET data == [authenticated |-> authenticated,
                 transaction_id |-> transaction_id,
                 merchant_reference |-> merchant_reference]
        missing == SelectSeq(<<"transaction_id", "merchant_reference">>,
                             LAMBDA k : IF k = "transaction_id"
                                        THEN transaction_id = Absent
                                        ELSE merchant_reference = <<>>)
        parts == Split(merchant_reference)
        cart == IF Len(parts) = 2 /\ GetSite(parts[1]) # NoSite
                THEN GetCart(parts[2]) ELSE NoCart
    IN  IF missing # <<>>
        THEN Response("status", data, "n/a", "missing_params", 400, <<>>, <<>>,
                      <<"error">>, "none", [error |-> missing])
        ELSE IF cart = NoCart
        THEN Response("status", data, "n/a", "invalid_reference", 404,
                      <<InvalidCartAudit(NoCart, "None")>>, <<>>, <<>>,
                      "InvalidCartError", [error |-> merchant_reference])
        ELSE Response("status", data, cartStatus[cart],
                      StatusAnswer(cart, transaction_id).branch,
                      StatusAnswer(cart, transaction_id).http, <<>>, <<>>,
                      IF StatusAnswer(cart, transaction_id).branch = "paid_no_invoice"
                      THEN <<"error">> ELSE <<>>,
                      "none", StatusAnswer(cart, transaction_id).body)

\* `authenticated` is whether the caller is logged in; permission_classes is
\* an attribute the plain django View never consults
StatusResponse(authenticated, transaction_id, merchant_reference) ==
    LET data == [authenticated |-> authenticated,
                 transaction_id |-> transaction_id,
                 merchant_reference |-> merchant_reference]
        missing == SelectSeq(<<"transaction_id", "merchant_reference">>,
                             LAMBDA k : IF k = "transaction_id"
                                        THEN transaction_id = Absent
                                        ELSE merchant_reference = <<>>)
        parts == Split(merchant_reference)
        cart == IF Len(parts) = 2 THEN GetCart(parts[2]) ELSE NoCart
    IN  IF missing # <<>>
        THEN Response("status", data, "n/a", "missing_params", 400, <<>>, <<>>,
                      <<"error">>, "none", [error |-> missing])
        ELSE IF cart = NoCart
        THEN Response("status", data, "n/a", "invalid_reference", 404,
                      <<InvalidCartAudit(NoCart, "None")>>, <<>>, <<>>,
                      "InvalidCartError", [error |-> merchant_reference])
        ELSE Response("status", data, cartStatus[cart],
                      StatusAnswer(cart, transaction_id).branch,
                      StatusAnswer(cart, transaction_id).http, <<>>, <<>>,
                      IF StatusAnswer(cart, transaction_id).branch = "paid_no_invoice"
                      THEN <<"error">> ELSE <<>>,
                      "none", StatusAnswer(cart, transaction_id).body)

\* PayFortStatusView.get as a step: the poll is answered, nothing is written
\* but the audit row of the answer
StatusGet(authenticated, transaction_id, merchant_reference) ==
    /\ last = NoResp
    /\ last' = StatusResponse(authenticated, transaction_id, merchant_reference)
    /\ UNCHANGED <<store, pc, req>>

-----------------------------------------------------------------------------
(* PayFort.get_transaction_parameters: payment initiation *)

RECURSIVE ToDigits(_)
\* str(n) for a non-negative integer
ToDigits(n) ==
    LET d == <<"0", "1", "2", "3", "4", "5", "6", "7", "8", "9">>
    IN  IF n < 10 THEN <<d[n + 1]>> ELSE Append(ToDigits(n \div 10), d[(n % 10) + 1])

\* a base processor that writes the reference with the cart first
BaseParameters_CartFirst(cart, site) ==
    [language |-> "en",
     order_reference |-> ToDigits(cart) \o <<"-">> \o ToDigits(site),
     amount |-> "150",
     currency |-> "USD",
     user_email |-> "user3@example.com",
     order_description |-> "some description"]

\* BaseProcessor.get_transaction_parameters_base
BaseParameters(cart, site) ==
    [language |-> "en",
     order_reference |-> ToDigits(site) \o <<"-">> \o ToDigits(cart),
     amount |-> "150",
     currency |-> "USD",
     user_email |-> "user3@example.com",
     order_description |-> "some description"]

\* an initiator that hands the base keys on as they are
GetTransactionParametersBase_KeepsBaseKeys(cart, site) ==
    LET base == BaseParameters(cart, site)
    IN  [language |-> base.language,
         amount |-> base.amount,
         currency |-> base.currency,
         order_description |-> base.order_description,
         order_reference |-> base.order_reference,
         user_email |-> base.user_email,
         command |-> "PURCHASE",
         access_code |-> "test-code",
         merchant_identifier |-> "test-identifier",
         merchant_reference |-> base.order_reference,
         customer_email |-> base.user_email,
         return_url |-> "payfort:return"]

\* PayFort.get_transaction_parameters_base: user_email and order_reference
\* are popped and come back as customer_email and merchant_reference
GetTransactionParametersBase(cart, site) ==
    LET base == BaseParameters(cart, site)
    IN  [language |-> base.language,
         amount |-> base.amount,
         currency |-> base.currency,
         order_description |-> base.order_description,
         command |-> "PURCHASE",
         access_code |-> "test-code",
         merchant_identifier |-> "test-identifier",
         merchant_reference |-> base.order_reference,
         customer_email |-> base.user_email,
         return_url |-> "payfort:return"]

\* an initiator that signs with the response phrase
GenerateSignature_ResponsePhrase(params, sha_phrase) ==
    GetSignature(IF sha_phrase = "" THEN RESPONSE_SHA_PHRASE ELSE sha_phrase, params)

\* PayFort.generate_signature: the request phrase when none is given
GenerateSignature(params, sha_phrase) ==
    GetSignature(IF sha_phrase = "" THEN REQUEST_SHA_PHRASE ELSE sha_phrase, params)

\* PayFort.get_transaction_parameters
GetTransactionParameters(cart, site) ==
    LET tp == GetTransactionParametersBase(cart, site)
    IN  [k \in DOMAIN tp \cup {"signature", "payment_page_url", "csrfmiddlewaretoken"} |->
            CASE k = "signature" -> GenerateSignature(tp, "")
              [] k = "payment_page_url" -> "https://fake_payfort.com"
              [] k = "csrfmiddlewaretoken" -> "csrf"
              [] OTHER -> tp[k]]

\* PayFort.payment_view for a cart of the store and the site of the request
Initiate(cart, site) ==
    /\ last = NoResp
    /\ last' = Response("initiate", [cart |-> cart, site |-> site], cartStatus[cart],
                        "rendered", 200, <<>>, <<>>, <<>>, "none",
                        GetTransactionParameters(cart, site))
    /\ UNCHANGED <<store, pc, req>>

-----------------------------------------------------------------------------
(* The codec on its own: payfort/helpers.py and the merchant reference *)

\* get_signature(sha_phrase, sha_method, params)
SignFields(sha_phrase, fields) ==
    /\ last = NoResp
    /\ last' = Response("sign", [sha_phrase |-> sha_phrase, fields |-> fields], "n/a",
                        "signed", 200, <<>>, <<>>, <<>>, "none",
                        [signature |-> Sign(sha_phrase, fields)])
    /\ UNCHANGED <<store, pc, req>>

\* verify_signature(sha_phrase, sha_method, data) on the map that a sender
\* holding the phrase `signer` signed
VerifyFields(sha_phrase, signer, fields) ==
    LET data == SetField(fields, SIGNATURE, Sign(signer, fields))
    IN  /\ last = NoResp
        /\ last' = Response("verify",
                            [sha_phrase |-> sha_phrase, signer |-> signer, fields |-> data],
                            "n/a",
                            IF Verify(sha_phrase, data) THEN "verified" ELSE "bad_signature",
                            200, <<>>, <<>>, <<>>,
                            IF Verify(sha_phrase, data) THEN "none"
                            ELSE "PayFortBadSignatureException",
                            NoBody)
        /\ UNCHANGED <<store, pc, req>>

\* cart and site ids of the reference on its own
MaxId == 110

Ids == 0..MaxId

\* PayFort.get_transaction_parameters_base for a cart and a site of any id
ParametersBase(cart, site) ==
    /\ last = NoResp
    /\ last' = Response("parameters_base", [cart |-> cart, site |-> site], "n/a",
                        "built", 200, <<>>, <<>>, <<>>, "none",
                        GetTransactionParametersBase(cart, site))
    /\ UNCHANGED <<store, pc, req>>

-----------------------------------------------------------------------------
(* Specifications *)

Idle == \A w \in Workers : pc[w] = "idle"

\* carts in any status, no payment recorded yet
Init ==
    /\ cartStatus \in [Carts -> CartStates]
    /\ transactions = {}
    /\ webhookEvents = {}
    /\ invoices = {}
    /\ fulfilled = [c \in Carts |-> 0]
    /\ pc = [w \in Workers |-> "idle"]
    /\ req = [w \in Workers |-> NoReq]
    /\ last = NoResp

\* the form data of a PSP notification of a successful payment for a cart of
\* the store, correctly signed or signed with the wrong phrase
PspPayloads ==
    {p \in Payloads : /\ p.merchant_reference \in {<<"2", "-", "1">>, <<"2", "-", "3">>}
                      /\ p.status = SUCCESS_STATUS
                      /\ p.fort_id # Absent
                      /\ p.amount = "150"
                      /\ p.signature # NoSignature}

PspReferences == {p.merchant_reference : p \in PspPayloads}

\* the three operations beside the webhook, on the data of a payment under way
OtherOperations ==
    \/ \E data \in PspPayloads : ReturnPost(data)
    \/ \E t \in FortIds, r \in PspReferences : StatusGet(TRUE, t, r)
    \/ \E c \in Carts, site \in Sites : Initiate(c, site)

\* Requests handled one at a time: webhook deliveries with any form data, and
\* the other operations between them
Next ==
    \/ \E data \in Payloads : Idle /\ FeedbackReceive(1, data)
    \/ FeedbackSettle(1)
    \/ FeedbackInvoice(1)
    \/ FeedbackFulfill(1)
    \/ Idle /\ OtherOperations
    \/ Respond

Spec == Init /\ [][Next]_vars

\* redirect callbacks and webhook deliveries with any form data, one request
\* at a time
NextReturn ==
    \/ \E data \in Payloads : Idle /\ ReturnPost(data)
    \/ \E data \in Payloads : Idle /\ FeedbackReceive(1, data)
    \/ FeedbackSettle(1)
    \/ FeedbackInvoice(1)
    \/ FeedbackFulfill(1)
    \/ Respond

SpecReturn == Init /\ [][NextReturn]_vars

\* status polls with any parameters, between webhook deliveries
NextStatus ==
    \/ \E a \in BOOLEAN, t \in FortIds \cup {Absent}, r \in References :
          Idle /\ StatusGet(a, t, r)
    \/ \E data \in PspPayloads : Idle /\ FeedbackReceive(1, data)
    \/ FeedbackSettle(1)
    \/ FeedbackInvoice(1)
    \/ FeedbackFulfill(1)
    \/ Respond

SpecStatus == Init /\ [][NextStatus]_vars

\* Concurrent request handling: up to MaxInFlight webhook deliveries in
\* flight, their steps interleaved with each other and with redirect
\* callbacks, status polls and initiations.  A delivery takes the first
\* free worker.
NextRace ==
    \/ \E w \in Workers, data \in PspPayloads :
          /\ \A v \in 1..(w - 1) : pc[v] # "idle"
          /\ FeedbackReceive(w, data)
    \/ \E w \in Workers : FeedbackSettle(w)
    \/ \E w \in Workers : FeedbackInvoice(w)
    \/ \E w \in Workers : FeedbackFulfill(w)
    \/ OtherOperations
    \/ Respond

SpecRace == Init /\ [][NextRace]_vars

\* the phrases a caller hands to generate_signature: none, the two of the
\* settings, one of its own
GivenPhrases == {"", REQUEST_SHA_PHRASE, RESPONSE_SHA_PHRASE, "another-phrase"}

\* the maps it signs: initiation parameters and field maps of callbacks
SignableMaps ==
    {GetTransactionParametersBase(c, s) : c \in Carts, s \in Sites} \cup FieldMaps

\* PayFort.generate_signature called on its own
SignParameters(params, sha_phrase) ==
    /\ last = NoResp
    /\ last' = Response("generate_signature",
                        [params |-> params, sha_phrase |-> sha_phrase], "n/a",
                        "signed", 200, <<>>, <<>>, <<>>, "none",
                        [signature |-> GenerateSignature(params, sha_phrase)])
    /\ UNCHANGED <<store, pc, req>>

\* the pure functions applied to inputs of their own; the store plays no part
InitCodec ==
    /\ Init
    /\ cartStatus = [c \in Carts |-> PROCESSING]

NextCodec ==
    \/ /\ last = NoResp
       /\ \/ \E s \in Phrases, m \in FieldSeqs : SignFields(s, m)
          \/ \E s \in Phrases, signer \in Phrases, m \in FieldSeqs :
                 VerifyFields(s, signer, m)
          \/ \E c \in Ids, s \in Ids : ParametersBase(c, s)
          \/ \E m \in SignableMaps, s \in GivenPhrases : SignParameters(m, s)
    \/ Respond

SpecCodec == InitCodec /\ [][NextCodec]_vars

-----------------------------------------------------------------------------
(* Properties of settlement *)

\* a webhook delivery has just been answered
FeedbackDone == last.op = "feedback"

\* the cart and the site the answered request's merchant_reference names
LastCart == CartProperty(last.data.merchant_reference).cart
LastSite == SiteProperty(last.data.merchant_reference).site

\* form data that passes every check before the state guard
ValidDelivery(data) ==
    /\ CartProperty(data.merchant_reference).cart # NoCart
    /\ SiteProperty(data.merchant_reference).site # NoSite
    /\ VerifySignature(RESPONSE_SHA_PHRASE, data)
    /\ data.status = SUCCESS_STATUS
    /\ VerifyResponseFormat(data)

TransactionsOf(c) == {t \in transactions : t.cart = c}

\* this step answers a webhook delivery
FeedbackAnswered == last' # last /\ last'.op = "feedback"
AnsweredCart == CartProperty(last'.data.merchant_reference).cart

\* the parts of C1: the store, the answer to a redelivery, the steps
C1_Stable ==
    \A c \in Carts :
        /\ Cardinality(TransactionsOf(c)) <= 1
        /\ TransactionsOf(c) # {} => cartStatus[c] = PAID
        /\ fulfilled[c] <= 1

C1_Redelivery ==
    (FeedbackDone /\ ValidDelivery(last.data)
        /\ Transaction(LastCart, last.data) \in transactions)
    => /\ last.http = 200
       /\ cartStatus[LastCart] = PAID
       /\ TransactionsOf(LastCart) = {Transaction(LastCart, last.data)}
       /\ last.pre = PAID => last.calls = <<>> /\ last.branch = "stale"

C1_OneTransition ==
    /\ transactions \subseteq transactions'
    /\ \A c \in Carts :
          cartStatus'[c] # cartStatus[c]
          => /\ cartStatus[c] = PROCESSING
             /\ cartStatus'[c] = PAID
             /\ TransactionsOf(c) = {}
             /\ Cardinality({t \in transactions' : t.cart = c}) = 1

\* C1: deliveries handled one after another settle an order at most once.  A
\* cart never has more than one transaction row, a cart with a row is Paid and
\* was fulfilled at most once; the status of a cart changes only from
\* Processing to Paid, in a step that inserts its single row, and rows are
\* never removed; and a delivery of form data whose row is already there is
\* answered 200 with that row the cart's only one, the cart Paid, and, when it
\* found the cart Paid, without calling handle_payment.
C1_IdempotentSettlement ==
    [](C1_Stable /\ C1_Redelivery) /\ [][C1_OneTransition]_vars

\* the form data of a settled and fulfilled payment was delivered again
W1_Redelivered ==
    /\ FeedbackDone
    /\ last.pre = PAID
    /\ Transaction(LastCart, last.data) \in transactions
    /\ fulfilled[LastCart] = 1

\* C2: of the deliveries in flight for one Processing order at most one
\* commits: a cart never has more than one transaction row.
C2_AtMostOneCommit ==
    \A c \in Carts : Cardinality({t \in transactions : t.cart = c}) < 2

\* the parts of C3: what a row stores, and the only step that inserts one
C3_Gated(t) ==
    /\ VerifySignature(RESPONSE_SHA_PHRASE, t.response)
    /\ t.response.status = SUCCESS_STATUS
    /\ VerifyResponseFormat(t.response)
    /\ CartProperty(t.response.merchant_reference).cart = t.cart
    /\ SiteProperty(t.response.merchant_reference).site # NoSite
    /\ t.gateway_transaction_id = t.response.fort_id

C3_OnlyWebhook ==
    transactions' # transactions
    => \E w \in Workers :
          /\ pc[w] = "settle" /\ pc'[w] = "fulfill"
          /\ req[w].pre = PROCESSING
          /\ transactions' = transactions \cup {Transaction(req[w].cart, req[w].data)}

\* C3: a transaction row exists only through the webhook's atomic scope.  The
\* form data stored in every row passes signature verification under the
\* response phrase, carries the success status and the required fields, and
\* its merchant_reference names the row's cart and an existing site; and the
\* set of rows changes only in the settlement step of a delivery that read the
\* order as Processing, by the insertion of the row of that delivery.
C3_TransactionProvenance ==
    [](\A t \in transactions : C3_Gated(t)) /\ [][C3_OnlyWebhook]_vars

\* a row was created for cart 3 from the form data of the PSP
W3_RowCreated ==
    \E t \in transactions : t.cart = 3 /\ C3_Gated(t) /\ pc[1] = "fulfill"

\* the parts of C4: requests past the guard, the answer at the guard, the steps
C4_PastGuard == \A w \in Workers : pc[w] # "idle" => req[w].pre = PROCESSING

C4_Rejected ==
    (FeedbackDone /\ last.pre \notin {PROCESSING, "n/a"})
    => /\ last.calls = <<>>
       /\ cartStatus[LastCart] = last.pre
       /\ (ValidDelivery(last.data)
             => /\ last.branch = "stale"
                /\ last.http = 200
                /\ last.audits[Len(last.audits)]
                     = InvalidCartAudit(LastCart, last.pre))

C4_Frame ==
    /\ (FeedbackAnswered /\ last'.pre \notin {PROCESSING, "n/a"}) => UNCHANGED store
    /\ (transactions' # transactions \/ cartStatus' # cartStatus)
          => \E w \in Workers : pc[w] = "settle" /\ pc'[w] = "fulfill"

\* C4: an order that is not Processing is never settled.  A delivery past the
\* guard has read its order as Processing; a delivery that read a resolved
\* order in another state is answered without a call to a collaborator and
\* without a change to the store, and when its form data passes the earlier
\* checks the answer is 200 with a RESPONSE_INVALID_CART row that records the
\* state read; and rows and statuses change in the settlement step only.
C4_StateGuard == [](C4_PastGuard /\ C4_Rejected) /\ [][C4_Frame]_vars

\* a valid delivery for a Pending order was turned away at the guard
W4_PendingTurnedAway ==
    /\ FeedbackDone
    /\ last.branch = "stale"
    /\ last.pre = PENDING
    /\ ValidDelivery(last.data)

\* the parts of C5: the answer, and the step after the commit
C5_Answer ==
    (FeedbackDone
        /\ last.error \in {"RefreshError", "InvoiceError", "FulfillmentError"})
    => /\ last.http = 200
       /\ Contains(last.logs, "error")
       /\ cartStatus[LastCart] = PAID
       /\ Transaction(LastCart, last.data) \in transactions
       /\ last.data \in webhookEvents
       /\ ~Contains(ActionsOf(last.audits), CART_FULFILLED)

C5_Frame ==
    (\E w \in Workers : pc[w] \in {"fulfill", "fulfill_cart"} /\ pc'[w] # pc[w])
    => UNCHANGED <<cartStatus, transactions, webhookEvents>>

\* C5: a failure of create_invoice or fulfill_cart after the commit does not
\* undo the settlement.  The delivery is answered 200, the error is logged,
\* the cart is Paid and the transaction row and the webhook event of the
\* delivery are in the store; and the steps after the commit change neither
\* statuses nor rows nor events.
C5_FulfillmentFailure == []C5_Answer /\ [][C5_Frame]_vars

\* fulfill_cart failed after the invoice was created
W5_FulfillFailed ==
    /\ FeedbackDone
    /\ last.error = "FulfillmentError"
    /\ Invoice(LastCart, last.data.fort_id) \in invoices
    /\ fulfilled[LastCart] = 0

\* the step that answers a delivery whose handle_payment failed (C6)
C6_Step ==
    (FeedbackAnswered /\ last'.error = "HandlePaymentError")
    => /\ UNCHANGED store
       /\ last'.branch = "rolled_back"
       /\ last'.http = 200
       /\ last'.calls = <<"handle_payment">>
       /\ cartStatus'[AnsweredCart] = PROCESSING
       /\ Transaction(AnsweredCart, last'.data) \notin transactions'
       /\ last'.data \notin webhookEvents'
       /\ last'.audits[Len(last'.audits)]
            = Audit(TRANSACTION_ROLLED_BACK, AnsweredCart,
                    [transaction_id |-> last'.data.fort_id,
                     cart_id |-> AnsweredCart,
                     site_id |-> SiteProperty(last'.data.merchant_reference).site])

\* C6: an error of handle_payment other than a duplicate rolls the scope
\* back.  The step that answers such a delivery leaves the store as it was:
\* no row and no event of the delivery, the order still Processing; it writes
\* a TRANSACTION_ROLLED_BACK row with transaction_id, cart_id and site_id,
\* calls neither create_invoice nor fulfill_cart, and answers 200.
C6_Rollback == [][C6_Step]_vars

\* handle_payment failed and the order is Processing as before
W6_RolledBack ==
    /\ FeedbackDone
    /\ last.branch = "rolled_back"
    /\ cartStatus[LastCart] = PROCESSING
    /\ TransactionsOf(LastCart) = {}

\* the step that answers a delivery whose handle_payment found a duplicate (C7)
C7_Step ==
    (FeedbackAnswered /\ last'.error = "DuplicateTransactionError")
    => /\ UNCHANGED store
       /\ \E t \in transactions :
             t.gateway_transaction_id = last'.data.fort_id
       /\ last'.branch = "duplicate"
       /\ last'.http = 200
       /\ last'.calls = <<"handle_payment">>
       /\ Count(ActionsOf(last'.audits), DUPLICATE_TRANSACTION) = 1
       /\ last'.audits[Len(last'.audits)]
            = Audit(DUPLICATE_TRANSACTION, AnsweredCart,
                    [transaction_id |-> last'.data.fort_id,
                     cart_status |-> cartStatus[AnsweredCart]])

\* C7: a DuplicateTransactionError of handle_payment changes nothing in the
\* store.  It is raised only when a row with the delivery's transaction id
\* exists; the step that answers the delivery leaves the store as it was,
\* writes exactly one DUPLICATE_TRANSACTION row, with the transaction id and
\* the status of the order read after the scope, calls neither create_invoice
\* nor fulfill_cart, and answers 200.
C7_Duplicate == [][C7_Step]_vars

\* a delivery that passed the guard found the row of a concurrent delivery
\* for the same order
W7_DuplicateSameOrder ==
    /\ FeedbackDone
    /\ last.branch = "duplicate"
    /\ cartStatus[LastCart] = PAID
    /\ \E t \in TransactionsOf(LastCart) :
          t.gateway_transaction_id = last.data.fort_id

\* C8: a valid delivery for a Processing order, with no error on the way, is
\* settled and fulfilled.  The answer is 200, the row of the delivery is in
\* the store, the order is Paid, and handle_payment, create_invoice and
\* fulfill_cart were each called once, in this order.
C8_Settled ==
    (FeedbackDone /\ ValidDelivery(last.data) /\ last.pre = PROCESSING
        /\ last.error = "none")
    => /\ last.branch = "fulfilled"
       /\ last.http = 200
       /\ Transaction(LastCart, last.data) \in transactions
       /\ cartStatus[LastCart] = PAID
       /\ last.calls = <<"handle_payment", "create_invoice", "fulfill_cart">>
       /\ Count(last.calls, "fulfill_cart") = 1
       /\ fulfilled[LastCart] = 1
       /\ Invoice(LastCart, last.data.fort_id) \in invoices

\* cart 1 was settled and fulfilled by a delivery with transaction id t2
W8_Fulfilled ==
    /\ FeedbackDone
    /\ last.branch = "fulfilled"
    /\ LastCart = 1
    /\ last.data.fort_id = "t2"
    /\ last.http = 200

\* a delivery found its order Paid and the row of its own form data in the
\* store: the form data was delivered before, and committed
AfterCommit ==
    /\ FeedbackDone
    /\ ValidDelivery(last.data)
    /\ last.pre = PAID
    /\ Transaction(LastCart, last.data) \in transactions

\* C9, as the specification states it: the second delivery of form data that
\* was committed writes a DUPLICATE_TRANSACTION row.
C9_SecondDeliveryAuditsDuplicate ==
    AfterCommit => Contains(ActionsOf(last.audits), DUPLICATE_TRANSACTION)

\* C9, as the code has it: the second delivery of form data that was
\* committed stops at the state guard.  It writes a RESPONSE_INVALID_CART row
\* recording the Paid state and no DUPLICATE_TRANSACTION row, does not call
\* handle_payment, and is answered 200; a DUPLICATE_TRANSACTION row is written
\* only by a delivery that read its order as Processing.
C9_SecondDeliveryStopsAtGuard ==
    /\ AfterCommit
         => /\ last.branch = "stale"
            /\ last.http = 200
            /\ last.calls = <<>>
            /\ ~Contains(ActionsOf(last.audits), DUPLICATE_TRANSACTION)
            /\ last.audits[Len(last.audits)] = InvalidCartAudit(LastCart, PAID)
    /\ (FeedbackDone /\ Contains(ActionsOf(last.audits), DUPLICATE_TRANSACTION))
         => last.pre = PROCESSING

\* the second delivery of committed form data was answered
W9_SecondDelivery ==
    /\ AfterCommit
    /\ last.audits[Len(last.audits)].action = RESPONSE_INVALID_CART
    /\ last.data \in webhookEvents

\* the parts of C10: every step, and every state
C10_Step ==
    /\ transactions \subseteq transactions'
    /\ \A c \in Carts :
          cartStatus'[c] # cartStatus[c]
          => /\ cartStatus[c] = PROCESSING
             /\ cartStatus'[c] = PAID
             /\ \E t \in transactions' \ transactions : t.cart = c
    /\ \A t \in transactions' \ transactions : cartStatus'[t.cart] = PAID

C10_RowMeansPaid == \A t \in transactions : cartStatus[t.cart] = PAID

\* C10: across all operations, also with deliveries in flight together, the
\* status of an order changes only from Processing to Paid and only in a step
\* that inserts a transaction row of the order; a step that inserts a row
\* leaves its order Paid; rows are never removed; so no order with a row is
\* anything but Paid.
C10_OnlyProcessingToPaid == []C10_RowMeansPaid /\ [][C10_Step]_vars

\* an order was settled while another delivery was in flight
W10_SettledInFlight ==
    \E c \in Carts :
        /\ cartStatus[c] = PAID
        /\ TransactionsOf(c) # {}
        /\ \E w \in Workers : pc[w] = "settle"

-----------------------------------------------------------------------------
(* Properties of the webhook's early answers *)

\* the merchant_reference is missing, does not split in two, or names a cart
\* or a site that is not there
Unresolvable(data) ==
    \/ CartProperty(data.merchant_reference).cart = NoCart
    \/ SiteProperty(data.merchant_reference).site = NoSite

\* the parts of C11: the answer, and the step that gives it
C11_Answer ==
    (FeedbackDone /\ Unresolvable(last.data))
    => /\ last.http = 400
       /\ last.branch = "unresolvable"
       /\ last.error = "none"
       /\ ~Contains(ActionsOf(last.audits), BAD_RESPONSE_SIGNATURE)
       /\ last.calls = <<>>

C11_Frame ==
    (FeedbackAnswered /\ Unresolvable(last'.data)) => UNCHANGED store

\* C11: a webhook delivery whose merchant_reference does not resolve to a
\* cart and a site is answered 400 before the signature is looked at (no
\* signature exception, no BAD_RESPONSE_SIGNATURE row, whatever the signature
\* is), without a call to handle_payment and without a change to the store.
C11_UnresolvableReference == []C11_Answer /\ [][C11_Frame]_vars

\* a delivery for cart 3 under a site that does not exist, badly signed
W11_MissingSiteBadSignature ==
    /\ FeedbackDone
    /\ last.http = 400
    /\ LastCart = 3
    /\ LastSite = NoSite
    /\ ~VerifySignature(RESPONSE_SHA_PHRASE, last.data)

\* the parts of C12: the answer, and the step that gives it
C12_Answer ==
    (FeedbackDone /\ ~Unresolvable(last.data)
        /\ ~VerifySignature(RESPONSE_SHA_PHRASE, last.data))
    => /\ last.http = 400
       /\ Count(ActionsOf(last.audits), BAD_RESPONSE_SIGNATURE) = 1
       /\ last.audits[Len(last.audits)]
            = Audit(BAD_RESPONSE_SIGNATURE, LastCart, [data |-> last.data])
       /\ last.calls = <<>>

C12_Frame ==
    (FeedbackAnswered /\ ~Unresolvable(last'.data)
        /\ ~VerifySignature(RESPONSE_SHA_PHRASE, last'.data))
    => UNCHANGED store

\* C12: a webhook delivery whose cart and site resolve and whose signature
\* does not verify is answered 400 with exactly one BAD_RESPONSE_SIGNATURE
\* row, which names the resolved cart and carries the form data, without a
\* call to handle_payment and without a change to the store.
C12_BadSignature == []C12_Answer /\ [][C12_Frame]_vars

\* a delivery for cart 1 without a signature field was turned away
W12_UnsignedTurnedAway ==
    /\ FeedbackDone
    /\ last.branch = "bad_signature"
    /\ last.data.signature = NoSignature
    /\ LastCart = 1
    /\ Len(last.audits) = 2

\* C13, as the specification states it: a delivery whose reference resolves
\* is answered 200, whatever branch it ends in.
C13_OnlyUnresolvableIsNot200 ==
    (FeedbackDone /\ ~Unresolvable(last.data)) => last.http = 200

\* C13, as the code has it: 400 is the answer to an unresolvable reference and
\* to a bad signature, and to nothing else; a delivery that is not successful,
\* or is for an order that is not Processing, or is a duplicate, rolled back,
\* fulfilled, or failed in invoice or fulfillment, is answered 200.
C13_BadSignatureIsNot200Either ==
    FeedbackDone
    => /\ last.branch = "unresolvable" <=> Unresolvable(last.data)
       /\ last.branch = "bad_signature"
            <=> (~Unresolvable(last.data)
                   /\ ~VerifySignature(RESPONSE_SHA_PHRASE, last.data))
       /\ last.http = 400 <=> last.branch \in {"unresolvable", "bad_signature"}
       /\ last.branch \in {"unsuccessful", "stale", "duplicate", "rolled_back",
                           "refresh_failed", "invoice_failed", "fulfill_failed",
                           "fulfilled"}
            => last.http = 200

\* a badly signed delivery for cart 3 was answered 400
W13_BadSignature400 ==
    /\ FeedbackDone
    /\ last.branch = "bad_signature"
    /\ last.http = 400
    /\ LastCart = 3
    /\ last.data.status = SUCCESS_STATUS

\* C14: every webhook delivery is answered 200, or 400 for an unresolvable
\* reference; no exception leaves the handler.
C14_NoUnhandledFault == FeedbackDone => last.http \in {200, 400}

\* C15, as the specification states it: a delivery with an unresolvable
\* reference writes no RECEIVED_RESPONSE row.
C15_ReceivedAfterResolution ==
    (FeedbackDone /\ Unresolvable(last.data))
    => ~Contains(ActionsOf(last.audits), RECEIVED_RESPONSE)

\* C15, as the code has it: every delivery writes exactly one
\* RECEIVED_RESPONSE row, with the form data and the cart when it resolves,
\* before cart and site are checked; the only rows before it are those of a
\* failed cart lookup; a delivery with an unresolvable reference is answered
\* 400 after that row.
C15_ReceivedFirst ==
    FeedbackDone
    => /\ Count(ActionsOf(last.audits), RECEIVED_RESPONSE) = 1
       /\ \E i \in 1..Len(last.audits) :
             /\ last.audits[i]
                  = Audit(RECEIVED_RESPONSE, LastCart, [data |-> last.data])
             /\ \A j \in 1..(i - 1) :
                   last.audits[j] = InvalidCartAudit(NoCart, "None")
             /\ LastCart # NoCart => i = 1
       /\ Unresolvable(last.data) => last.http = 400

\* a delivery without a merchant_reference was answered 400 after its
\* RECEIVED_RESPONSE row
W15_ReceivedThenTurnedAway ==
    /\ FeedbackDone
    /\ last.data.merchant_reference = <<>>
    /\ last.http = 400
    /\ ActionsOf(last.audits) = <<RECEIVED_RESPONSE>>

-----------------------------------------------------------------------------
(* Properties of the redirect callback, and of the audit trail *)

ReturnDone == last.op = "return"

ReturnAnswered == last' # last /\ last'.op = "return"

\* the redirect callback's form data passes its three checks
ReturnAccepted(data) ==
    /\ VerifySignature(RESPONSE_SHA_PHRASE, data)
    /\ data.status = SUCCESS_STATUS
    /\ VerifyResponseFormat(data)

\* the audit action that is written in a branch of the webhook and names it;
\* "none" for a branch that writes no row of its own
FeedbackBranchAction(branch) ==
    CASE branch = "bad_signature" -> BAD_RESPONSE_SIGNATURE
      [] branch = "stale" -> RESPONSE_INVALID_CART
      [] branch = "duplicate" -> DUPLICATE_TRANSACTION
      [] branch = "rolled_back" -> TRANSACTION_ROLLED_BACK
      [] branch = "fulfilled" -> CART_FULFILLED
      [] OTHER -> "none"

\* C16, as the specification states it: every terminal branch of the two
\* callback handlers other than the wait page writes an audit row of its own,
\* that is, one that is not the RECEIVED_RESPONSE row of every delivery.
C16_EveryBranchAudited ==
    (\/ (FeedbackDone \/ ReturnDone) /\ last.branch \notin {"wait", "invalid_format"}
     \/ ReturnDone /\ last.branch = "invalid_format")
    => \E i \in 1..Len(last.audits) : last.audits[i].action # RECEIVED_RESPONSE

\* C16, as the code has it.  The webhook ends a bad signature, a stale order,
\* a duplicate, a rollback and a fulfillment with an audit row that names the
\* branch; a delivery that is not successful, has an invalid format, or fails
\* in invoice or fulfillment writes RECEIVED_RESPONSE and nothing else; an
\* unresolvable reference writes RECEIVED_RESPONSE and, only when the cart
\* lookup failed, RESPONSE_INVALID_CART rows without a cart.  The redirect
\* callback writes a BAD_RESPONSE_SIGNATURE row for a bad signature and no row
\* in any other branch.
C16_AuditedBranches ==
    /\ (FeedbackDone /\ FeedbackBranchAction(last.branch) # "none")
         => last.audits[Len(last.audits)].action = FeedbackBranchAction(last.branch)
    /\ (FeedbackDone /\ last.branch \in {"unsuccessful", "invalid_format",
                                         "refresh_failed", "invoice_failed",
                                         "fulfill_failed"})
         => ActionsOf(last.audits) = <<RECEIVED_RESPONSE>>
    /\ (FeedbackDone /\ last.branch = "unresolvable")
         => /\ Contains(ActionsOf(last.audits), RECEIVED_RESPONSE)
            /\ \A i \in 1..Len(last.audits) :
                  \/ last.audits[i].action = RECEIVED_RESPONSE
                  \/ last.audits[i] = InvalidCartAudit(NoCart, "None")
            /\ Contains(ActionsOf(last.audits), RESPONSE_INVALID_CART)
                 <=> CartProperty(last.data.merchant_reference).audits # <<>>
    /\ ReturnDone
         => IF last.branch = "bad_signature"
            THEN last.audits[Len(last.audits)].action = BAD_RESPONSE_SIGNATURE
            ELSE last.audits = <<>>

\* the redirect callback turned a payment that was not successful away and
\* wrote no audit row
W16_FailedWithoutAudit ==
    /\ ReturnDone
    /\ last.branch = "failed"
    /\ last.audits = <<>>
    /\ VerifySignature(RESPONSE_SHA_PHRASE, last.data)

\* C17: the redirect callback always answers 200; it renders the wait page,
\* with the polling metadata, exactly when the signature verifies, the status
\* is the success status and the format is valid, and the payment-error page
\* in every other case.
C17_WaitOrError ==
    ReturnDone
    => /\ last.http = 200
       /\ IF ReturnAccepted(last.data)
          THEN last.branch = "wait" /\ last.body = WaitContext(last.data)
          ELSE last.branch # "wait" /\ last.body = ErrorPage

\* the wait page was rendered for transaction t1
W17_WaitPage ==
    /\ ReturnDone
    /\ last.body # ErrorPage
    /\ last.body.ecommerce_transaction_id = "t1"
    /\ last.body.ecommerce_max_attempts = MAX_ATTEMPTS

\* the step of C18
C18_Step ==
    ReturnAnswered => UNCHANGED store /\ last'.calls = <<>>

\* C18: the redirect callback never settles.  The step that answers it leaves
\* statuses, transaction rows, webhook events, invoices and fulfillments as
\* they were and calls no collaborator, whatever the form data.
C18_RedirectNeverSettles == [][C18_Step]_vars

\* a verified success payload for cart 1 was answered with the wait page and
\* the cart is still Processing, without a transaction row
W18_WaitStillProcessing ==
    /\ ReturnDone
    /\ last.branch = "wait"
    /\ LastCart = 1
    /\ cartStatus[1] = PROCESSING
    /\ TransactionsOf(1) = {}

\* C19: a redirect callback whose signature does not verify, a missing
\* signature included, is answered 200 with the payment-error page and
\* exactly one BAD_RESPONSE_SIGNATURE row, which carries the form data and
\* names the cart when the reference resolves to one and no cart otherwise.
C19_RedirectBadSignature ==
    (ReturnDone /\ ~VerifySignature(RESPONSE_SHA_PHRASE, last.data))
    => /\ last.http = 200
       /\ last.body = ErrorPage
       /\ last.error = "PayFortBadSignatureException"
       /\ Count(ActionsOf(last.audits), BAD_RESPONSE_SIGNATURE) = 1
       /\ last.audits[Len(last.audits)]
            = Audit(BAD_RESPONSE_SIGNATURE, LastCart, [data |-> last.data])

\* an unsigned redirect callback whose reference names no cart
W19_UnsignedUnresolved ==
    /\ ReturnDone
    /\ last.data.signature = NoSignature
    /\ last.data.merchant_reference # <<>>
    /\ LastCart = NoCart
    /\ last.audits[Len(last.audits)].action = BAD_RESPONSE_SIGNATURE

\* C20: a redirect callback whose merchant_reference is there but names no
\* cart is answered with the payment-error page and an audit row, also when
\* it is correctly signed, carries the success status and has every
\* mandatory field.
C20_MalformedReferenceSwallowed ==
    (ReturnDone /\ last.data.merchant_reference # <<>> /\ LastCart = NoCart
        /\ ReturnAccepted(last.data))
    => last.body = ErrorPage /\ last.audits # <<>>

-----------------------------------------------------------------------------
(* Properties of the status poll *)

StatusDone == last.op = "status"

\* the cart the poll's merchant_reference names: the part after the first '-'
PolledCart ==
    IF Len(Split(last.data.merchant_reference)) = 2
    THEN GetCart(Split(last.data.merchant_reference)[2])
    ELSE NoCart

\* the PAID invoices of the polled cart for the polled transaction id
PolledInvoices ==
    {i \in invoices : /\ i.cart = PolledCart
                      /\ i.status = PAID
                      /\ i.related_transaction = last.data.transaction_id}

\* C21: the HTTP status of the status poll is decided, in this order, by:
\* a missing transaction_id or merchant_reference (400, no audit row, no
\* lookup); a reference that does not split or whose second part names no
\* cart (404); a Paid cart with a PAID invoice for the transaction id (200,
\* with the invoice number); a Paid cart without one (204); a Processing cart
\* (204); any other cart status, Pending included (404).
C21_StatusCodes ==
    StatusDone
    => IF last.data.transaction_id = Absent \/ last.data.merchant_reference = <<>>
       THEN last.http = 400 /\ last.audits = <<>> /\ last.pre = "n/a"
       ELSE IF PolledCart = NoCart
       THEN last.http = 404 /\ last.branch = "invalid_reference"
       ELSE IF cartStatus[PolledCart] = PAID /\ PolledInvoices # {}
       THEN /\ last.http = 200
            /\ \E i \in PolledInvoices : last.body = [invoice |-> i.invoice_number]
       ELSE IF cartStatus[PolledCart] = PAID
       THEN last.http = 204
       ELSE IF cartStatus[PolledCart] = PROCESSING
       THEN last.http = 204
       ELSE last.http = 404 /\ last.branch = "other_status"

\* a poll found the invoice of cart 1 for transaction t2
W21_InvoiceFound ==
    /\ StatusDone
    /\ last.http = 200
    /\ PolledCart = 1
    /\ last.body = [invoice |-> <<"INV", "t2">>]

\* C22: a caller that is not logged in never gets an answer derived from an
\* order: the poll does not reach the branches that read the cart.
C22_AuthenticatedOnly ==
    (StatusDone /\ ~last.data.authenticated)
    => last.branch \notin {"invoice", "paid_no_invoice", "processing", "other_status"}

-----------------------------------------------------------------------------
(* Properties of the signature codec and of the merchant reference *)

SignDone == last.op = "sign"

VerifyDone == last.op = "verify"

\* the same fields inserted in any other order
Reorderings(m) ==
    {[i \in 1..Len(m) |-> m[f[i]]] :
        f \in {g \in [1..Len(m) -> 1..Len(m)] :
                  \A i, j \in 1..Len(m) : i # j => g[i] # g[j]}}

\* C23: a map signed under a phrase verifies under that phrase and fails to
\* verify under any other phrase; the signature field takes no part in the
\* signed content, so signing a map gives the signature of the same map with
\* a signature field added, replaced or removed.
C23_SignVerify ==
    /\ VerifyDone
       => /\ Field(last.data.fields, SIGNATURE) = Sign(last.data.signer, last.data.fields)
          /\ last.branch = "verified" <=> last.data.signer = last.data.sha_phrase
          /\ last.branch = "bad_signature" <=> last.data.signer # last.data.sha_phrase
    /\ SignDone
       => /\ \A v \in CodecValues \cup {last.body.signature} :
                 Sign(last.data.sha_phrase, SetField(last.data.fields, SIGNATURE, v))
                     = last.body.signature
          /\ Sign(last.data.sha_phrase, WithoutSignature(last.data.fields))
                 = last.body.signature

\* a map of two fields, signed, verified under the signer's phrase
W23_SignedMapVerified ==
    /\ VerifyDone
    /\ last.branch = "verified"
    /\ Len(last.data.fields) = 3
    /\ HasField(last.data.fields, SIGNATURE)

\* no two keys of the map are equal when lower-cased
CaseDistinct(m) ==
    \A i, j \in 1..Len(m) : i # j => Lower(m[i][1]) # Lower(m[j][1])

\* position of a field in the map it was taken from
Position(m, f) == CHOOSE i \in 1..Len(m) : m[i] = f

\* q lists its fields in ascending order of the lower-cased key, fields whose
\* lower-cased keys are equal in the order they have in m
Ascending(q, m) ==
    \A i, j \in 1..Len(q) :
        i < j => \/ Less(Lower(q[i][1]), Lower(q[j][1]))
                 \/ /\ Lower(q[i][1]) = Lower(q[j][1])
                    /\ Position(m, q[i]) < Position(m, q[j])

\* C24 as stated: the signature of a map is the same for every insertion
\* order of its fields.
C24_AnyInsertionOrder ==
    SignDone
    => \A m \in Reorderings(last.data.fields) :
           Sign(last.data.sha_phrase, m) = last.body.signature

\* C24, amended: the signed string is the phrase, then key=value of every
\* field but the signature in ascending order of the whole lower-cased key,
\* then the phrase; the signature is the same for every insertion order
\* provided no two keys are equal when lower-cased (such keys are signed in
\* insertion order).
C24_CanonicalOrder ==
    SignDone
    => LET s == last.data.sha_phrase
           m == last.data.fields
           kept == WithoutSignature(m)
       IN  /\ \E q \in Reorderings(kept) :
                  /\ Ascending(q, kept)
                  /\ last.body.signature = s \o Join(q) \o s
           /\ \A q \in Reorderings(kept) :
                  Ascending(q, kept) => last.body.signature = s \o Join(q) \o s
           /\ CaseDistinct(m)
              => \A m2 \in Reorderings(m) : Sign(s, m2) = last.body.signature

\* fields inserted as B, ab, a_ are signed as a_, ab, B
W24_SortedIgnoringCase ==
    /\ SignDone
    /\ last.data.sha_phrase = <<"p", "p">>
    /\ last.data.fields = << <<<<"B">>, <<"1">>>>,
                             <<<<"a", "b">>, <<"1">>>>,
                             <<<<"a", "_">>, <<"1">>>> >>
    /\ last.body.signature = <<"p", "p", "a", "_", "=", "1", "a", "b", "=", "1",
                               "B", "=", "1", "p", "p">>

\* C25: the merchant reference that initiation writes, split on its first
\* '-', gives the site id as its first part and the cart id as its second,
\* for any non-negative ids; the resolvers find the site and the cart from it.
C25_ReferenceRoundTrip ==
    last.op = "parameters_base"
    => LET reference == last.body.merchant_reference
           parts == Split(reference)
       IN  /\ Len(parts) = 2
           /\ IsNumber(parts[1]) /\ ToInt(parts[1]) = last.data.site
           /\ IsNumber(parts[2]) /\ ToInt(parts[2]) = last.data.cart
           /\ last.data.site \in Sites => SiteProperty(reference).site = last.data.site
           /\ last.data.cart \in Carts
              => CartProperty(reference)
                     = [cart |-> last.data.cart, audits |-> <<>>, logs |-> <<>>]

\* the reference of cart 103 on site 2
W25_ReferenceOfCart103 ==
    /\ last.op = "parameters_base"
    /\ last.data = [cart |-> 103, site |-> 2]
    /\ last.body.merchant_reference = <<"2", "-", "1", "0", "3">>
    /\ ToInt(Split(last.body.merchant_reference)[2]) = 103

-----------------------------------------------------------------------------
(* Properties of the wait page and of payment initiation *)

\* C26: the wait page carries every field of the inbound payload unchanged,
\* and with them the transaction id (the payload's fort_id), the status-check
\* URL, the error URL and the success URL made with that fort_id, 24 as the
\* maximum number of attempts and 5000 as the wait time.
C26_WaitPageContext ==
    (ReturnDone /\ last.body.template = "zeitlabs_payments/wait_feedback.html")
    => /\ last.branch = "wait"
       /\ last.body.data = last.data
       /\ last.data.fort_id \in FortIds
       /\ last.body.ecommerce_transaction_id = last.data.fort_id
       /\ last.body.ecommerce_status_url = "payfort:status"
       /\ last.body.ecommerce_error_url
              = <<"zeitlabs_payments:payment-error", last.data.fort_id>>
       /\ last.body.ecommerce_success_url
              = <<"zeitlabs_payments:payment-success", last.data.fort_id>>
       /\ last.body.ecommerce_max_attempts = 24
       /\ last.body.ecommerce_wait_time = 5000

\* the wait page of transaction t2 for cart 3
W26_WaitPageOfT2 ==
    /\ ReturnDone
    /\ last.branch = "wait"
    /\ last.data.merchant_reference = <<"2", "-", "3">>
    /\ last.body.ecommerce_transaction_id = "t2"
    /\ last.body.ecommerce_max_attempts = 24

InitiateDone == last.op = "initiate"

\* the keys that initiation hands to the payment page
InitiationKeys ==
    {"command", "access_code", "merchant_identifier", "merchant_reference",
     "customer_email", "return_url", "language", "amount", "currency", "signature",
     "payment_page_url", "csrfmiddlewaretoken"}

\* the map that initiation returns, and its audit trail
C27_Keys ==
    InitiateDone
    => /\ InitiationKeys \subseteq DOMAIN last.body
       /\ "order_reference" \notin DOMAIN last.body
       /\ "user_email" \notin DOMAIN last.body
       /\ last.body.merchant_reference
              = ToDigits(last.data.site) \o <<"-">> \o ToDigits(last.data.cart)
       /\ last.body.customer_email = "user3@example.com"
       /\ last.audits = <<>>

\* the step that builds it
C27_Step ==
    (last'.op = "initiate" /\ last' # last) => store' = store

\* C27: building the initiation parameters changes nothing in the store (no
\* cart status, transaction, invoice, webhook event or fulfillment, and no
\* audit row); the map it returns has the keys command, access_code,
\* merchant_identifier, merchant_reference, customer_email, return_url,
\* language, amount, currency, signature, payment_page_url and
\* csrfmiddlewaretoken, and has neither order_reference nor user_email.
C27_InitiationIsReadOnly == [](C27_Keys) /\ [][C27_Step]_vars

\* initiation for cart 3 after a payment of cart 1 was settled
W27_InitiatedAfterSettlement ==
    /\ InitiateDone
    /\ last.data = [cart |-> 3, site |-> 2]
    /\ last.body.merchant_reference = <<"2", "-", "3">>
    /\ cartStatus[1] = PAID
    /\ transactions # {}

\* the part of a map on the keys given
Restrict(data, keys) == [k \in keys |-> data[k]]

\* the fields of the returned map that were in the map when it was signed
SignedKeys == DOMAIN last.body \ {"payment_page_url", "csrfmiddlewaretoken"}

\* C28 as stated: the returned map verifies under the request phrase, no
\* field but the signature is outside the signed content.
C28_SignatureCoversReturnedMap ==
    InitiateDone => VerifySignature(REQUEST_SHA_PHRASE, last.body)

\* C28, amended: the signature is computed with the request phrase over the
\* map as it is before the signature, payment_page_url and the anti-forgery
\* token are added; the returned map without those two fields verifies under
\* the request phrase (and not under the response phrase), the whole returned
\* map does not.
C28_SignatureCoversProtocolFields ==
    InitiateDone
    => /\ VerifySignature(REQUEST_SHA_PHRASE, Restrict(last.body, SignedKeys))
       /\ ~VerifySignature(RESPONSE_SHA_PHRASE, Restrict(last.body, SignedKeys))
       /\ ~VerifySignature(REQUEST_SHA_PHRASE, last.body)
       /\ last.body.signature
              = GetSignature(REQUEST_SHA_PHRASE,
                             Restrict(last.body, SignedKeys \ {"signature"}))

\* the signed parameters of cart 1
W28_SignedParameters ==
    /\ InitiateDone
    /\ last.data.cart = 1
    /\ last.body.signature.phrase = REQUEST_SHA_PHRASE
    /\ Len(last.body.signature.content) = 10

-----------------------------------------------------------------------------
(* Properties of the order of the checks *)

\* the first check of the webhook that the answered delivery does not pass,
\* "none" when it passes all of them: resolution, signature, status, format,
\* state of the order as the handler read it
FirstFailure ==
    IF Unresolvable(last.data) THEN "unresolvable"
    ELSE IF ~VerifySignature(RESPONSE_SHA_PHRASE, last.data) THEN "bad_signature"
    ELSE IF last.data.status # SUCCESS_STATUS THEN "unsuccessful"
    ELSE IF ~VerifyResponseFormat(last.data) THEN "invalid_format"
    ELSE IF last.pre # PROCESSING THEN "stale"
    ELSE "none"

\* the first check of the redirect callback that the payload does not pass
FirstReturnFailure ==
    IF ~VerifySignature(RESPONSE_SHA_PHRASE, last.data) THEN "bad_signature"
    ELSE IF last.data.status # SUCCESS_STATUS THEN "failed"
    ELSE IF ~VerifyResponseFormat(last.data) THEN "invalid_format"
    ELSE "wait"

\* the webhook stops at the first check that fails and leaves no trace of a
\* later one: no exception and no audit row of a later check, no settlement
C29_Webhook ==
    FeedbackDone
    => IF FirstFailure = "none"
       THEN /\ last.calls # <<>>
            /\ last.calls[1] = "handle_payment"
            /\ last.branch \in {"duplicate", "rolled_back", "refresh_failed",
                                "invoice_failed", "fulfill_failed", "fulfilled"}
       ELSE /\ last.branch = FirstFailure
            /\ last.calls = <<>>
            /\ last.error = CASE FirstFailure = "bad_signature"
                                     -> "PayFortBadSignatureException"
                              [] FirstFailure = "invalid_format" -> "PayFortException"
                              [] OTHER -> "none"
            /\ Count(ActionsOf(last.audits), BAD_RESPONSE_SIGNATURE)
                   = IF FirstFailure = "bad_signature" THEN 1 ELSE 0
            /\ ~Unresolvable(last.data)
               => Count(ActionsOf(last.audits), RESPONSE_INVALID_CART)
                      = IF FirstFailure = "stale" THEN 1 ELSE 0

\* the redirect callback stops at the first of its three checks that fails
C29_Redirect ==
    ReturnDone
    => /\ last.branch = FirstReturnFailure
       /\ last.error = CASE FirstReturnFailure = "bad_signature"
                                -> "PayFortBadSignatureException"
                         [] FirstReturnFailure = "invalid_format" -> "PayFortException"
                         [] OTHER -> "none"

\* the validator's exception is only seen for a verified, successful payload
C29_FormatLast ==
    ((FeedbackDone \/ ReturnDone) /\ last.error = "PayFortException")
    => /\ VerifySignature(RESPONSE_SHA_PHRASE, last.data)
       /\ last.data.status = SUCCESS_STATUS
       /\ ~VerifyResponseFormat(last.data)

\* a delivery that stops at a check changes nothing in the store
C29_Step ==
    (FeedbackAnswered /\ last'.calls = <<>>) => store' = store

\* C29: the response format is validated only for payloads whose signature
\* verified and whose status is the success status; the webhook makes its
\* checks in the order resolve cart and site, verify signature, check status,
\* validate format, check the state of the order, settle, and a check that
\* fails ends the request before any later check runs.
C29_CheckOrder ==
    [](C29_Webhook /\ C29_Redirect /\ C29_FormatLast) /\ [][C29_Step]_vars

\* a signed delivery without the success status and without fort_id, for a
\* cart that is not Processing: it stops at the status check
W29_StopsAtStatus ==
    /\ FeedbackDone
    /\ last.branch = "unsuccessful"
    /\ ~VerifyResponseFormat(last.data)
    /\ last.pre # PROCESSING
    /\ last.error = "none"

\* the answer to a signed delivery whose status is not the success status
C30_Acknowledged ==
    /\ last.http = 200
    /\ last.branch = "unsuccessful"
    /\ last.calls = <<>>
    /\ last.error = "none"
    /\ ActionsOf(last.audits) = <<RECEIVED_RESPONSE>>

\* C30 as stated: a webhook with a valid signature and a status other than
\* the success status (or none) returns 200, changes nothing but the audit
\* log, and does not evaluate the state guard.
C30_NonSuccessAnswers200 ==
    (/\ FeedbackDone
     /\ VerifySignature(RESPONSE_SHA_PHRASE, last.data)
     /\ last.data.status # SUCCESS_STATUS)
    => C30_Acknowledged

\* the answer with and without a resolved cart and site
C30_Answer ==
    (/\ FeedbackDone
     /\ VerifySignature(RESPONSE_SHA_PHRASE, last.data)
     /\ last.data.status # SUCCESS_STATUS)
    => IF Unresolvable(last.data)
       THEN last.http = 400 /\ last.branch = "unresolvable" /\ last.calls = <<>>
       ELSE C30_Acknowledged

\* the step that gives it
C30_Step ==
    (/\ FeedbackAnswered
     /\ VerifySignature(RESPONSE_SHA_PHRASE, last'.data)
     /\ last'.data.status # SUCCESS_STATUS)
    => /\ store' = store
       /\ UNCHANGED <<pc, req>>

\* C30, amended: a webhook whose cart and site resolve, with a valid
\* signature and a status other than the success status (or none), returns
\* 200 and writes the received-response audit row and nothing else; the state
\* of the order is not checked, whatever it is.  When the cart or the site
\* does not resolve the answer is 400.  Either way the store is unchanged.
C30_UnsuccessfulIsAcknowledged == [](C30_Answer) /\ [][C30_Step]_vars

\* a signed delivery with status 20 for a Pending cart, answered with 200
W30_DeclinedForPendingCart ==
    /\ FeedbackDone
    /\ last.data.status = "20"
    /\ VerifySignature(RESPONSE_SHA_PHRASE, last.data)
    /\ last.pre = PENDING
    /\ last.http = 200
    /\ ActionsOf(last.audits) = <<RECEIVED_RESPONSE>>

-----------------------------------------------------------------------------
(* Properties of invoice creation and fulfillment *)

InvoicesOf(c) == {i \in invoices : i.cart = c}

\* C31: over any interleaving of webhook deliveries for one cart,
\* fulfill_cart succeeds at most once for it and create_invoice creates at
\* most one invoice for it.
C31_FulfilledAtMostOnce ==
    \A c \in Carts :
        /\ fulfilled[c] <= 1
        /\ Cardinality(InvoicesOf(c)) <= 1

\* the calls of an answered delivery: create_invoice comes after the commit
\* and before fulfill_cart, and a failed create_invoice ends the block; the
\* CART_FULFILLED row is written exactly in the branch where both succeeded
C32_Calls ==
    (FeedbackDone /\ Contains(last.calls, "create_invoice"))
    => /\ last.branch \in {"invoice_failed", "fulfill_failed", "fulfilled"}
       /\ last.calls = IF last.branch = "invoice_failed"
                       THEN <<"handle_payment", "create_invoice">>
                       ELSE <<"handle_payment", "create_invoice", "fulfill_cart">>
       /\ Contains(ActionsOf(last.audits), CART_FULFILLED) <=> last.branch = "fulfilled"
       /\ last.http = 200

\* no delivery that did not reach create_invoice writes CART_FULFILLED
C32_NoAuditElsewhere ==
    (FeedbackDone /\ ~Contains(last.calls, "create_invoice"))
    => ~Contains(ActionsOf(last.audits), CART_FULFILLED)

\* the step of lines 221-223: it never fulfills; it adds the invoice of the
\* delivery exactly when the delivery goes on to fulfill_cart, and a delivery
\* it ends has not called fulfill_cart
C32_InvoiceStep ==
    \A w \in Workers :
        (pc[w] = "fulfill" /\ pc'[w] # "fulfill")
        => /\ fulfilled' = fulfilled
           /\ IF pc'[w] = "fulfill_cart"
              THEN /\ invoices' = invoices
                                    \cup {Invoice(req[w].cart, req[w].data.fort_id)}
                   /\ last' = last
              ELSE /\ invoices' = invoices
                   /\ last'.branch \in {"refresh_failed", "invoice_failed"}
                   /\ ~Contains(last'.calls, "fulfill_cart")
                   /\ last'.http = 200

\* the step of lines 224-234: the invoice of the delivery is in the store
\* and stays there, and the cart is fulfilled exactly in the branch that
\* writes CART_FULFILLED
C32_FulfillStep ==
    \A w \in Workers :
        (pc[w] = "fulfill_cart" /\ pc'[w] # "fulfill_cart")
        => /\ Invoice(req[w].cart, req[w].data.fort_id) \in invoices
           /\ invoices' = invoices
           /\ last'.branch \in {"fulfill_failed", "fulfilled"}
           /\ fulfilled' = IF last'.branch = "fulfilled"
                           THEN [fulfilled EXCEPT ![req[w].cart] = @ + 1]
                           ELSE fulfilled

\* what the block leaves in the store: no cart is fulfilled and no invoice
\* made in any other step, and the settlement stays as it was committed
C32_Step ==
    /\ C32_InvoiceStep
    /\ C32_FulfillStep
    /\ fulfilled' # fulfilled
       => \E w \in Workers : pc[w] = "fulfill_cart" /\ pc'[w] = "idle"
    /\ invoices' # invoices
       => \E w \in Workers : pc[w] = "fulfill" /\ pc'[w] = "fulfill_cart"
    /\ (\E w \in Workers : pc[w] \in {"fulfill", "fulfill_cart"} /\ pc'[w] # pc[w])
       => UNCHANGED <<cartStatus, transactions, webhookEvents>>

\* C32: after a committed settlement the webhook calls create_invoice before
\* fulfill_cart; when create_invoice fails fulfill_cart is not called for
\* that delivery, when fulfill_cart fails the invoice already created stays,
\* and CART_FULFILLED is audited if and only if both succeeded.
C32_InvoiceThenFulfill ==
    [](C32_Calls /\ C32_NoAuditElsewhere) /\ [][C32_Step]_vars

\* fulfill_cart failed after the invoice of cart 1 was created
W32_InvoiceKept ==
    /\ FeedbackDone
    /\ last.branch = "fulfill_failed"
    /\ LastCart = 1
    /\ Invoice(1, last.data.fort_id) \in invoices
    /\ fulfilled[1] = 0
    /\ cartStatus[1] = PAID

\* no delivery for cart c is between its state guard and its answer
NotInFlight(c) == \A w \in Workers : pc[w] = "idle" \/ req[w].cart # c

\* a Paid cart that no delivery is working on stays as it is: no later
\* operation adds an invoice, fulfills it or changes its status
C33_Step ==
    \A c \in Carts :
        (cartStatus[c] = PAID /\ NotInFlight(c))
        => /\ cartStatus'[c] = PAID
           /\ \A w \in Workers : pc'[w] = "idle" \/ req'[w].cart # c
           /\ {i \in invoices' : i.cart = c} = InvoicesOf(c)
           /\ fulfilled'[c] = fulfilled[c]
           /\ {t \in transactions' : t.cart = c} = TransactionsOf(c)

\* a delivery that finds its cart Paid does not get past the state guard: a
\* valid one is answered there with 200, none calls handle_payment,
\* create_invoice or fulfill_cart
C33_Delivery ==
    (FeedbackDone /\ ~Unresolvable(last.data) /\ last.pre = PAID)
    => /\ last.calls = <<>>
       /\ ValidDelivery(last.data) => last.branch = "stale" /\ last.http = 200

\* a poll for a Paid cart without an invoice is answered 204
C33_Poll ==
    (StatusDone /\ last.data.transaction_id # Absent /\ PolledCart # NoCart)
    => ((cartStatus[PolledCart] = PAID /\ InvoicesOf(PolledCart) = {})
        => last.http = 204 /\ last.branch = "paid_no_invoice")

\* C33: after a committed settlement whose invoice creation or fulfillment
\* failed nothing repairs it: every later delivery for that cart ends at the
\* state guard at the latest (the cart is Paid) without calling
\* create_invoice or fulfill_cart, the invoices and the fulfillment of the
\* cart never change again, and when no invoice was created every later
\* status poll for the cart is answered 204.
C33_NoRepair == [](C33_Delivery /\ C33_Poll) /\ [][C33_Step]_vars

\* cart 1 was settled, its invoice creation failed, and a later valid
\* delivery for it was turned away at the state guard
W33_RedeliveryAfterFailure ==
    /\ FeedbackDone
    /\ LastCart = 1
    /\ ValidDelivery(last.data)
    /\ last.branch = "stale"
    /\ TransactionsOf(1) # {}
    /\ InvoicesOf(1) = {}
    /\ fulfilled[1] = 0

\* cart 1 was settled without an invoice and a poll for it got 204
W33_PollAfterFailure ==
    /\ StatusDone
    /\ PolledCart = 1
    /\ last.http = 204
    /\ TransactionsOf(1) # {}
    /\ InvoicesOf(1) = {}

-----------------------------------------------------------------------------
(* Properties of the status poll over time *)

\* a poll with a resolvable reference and a transaction id is answered with
\* the answer for its cart; for a Processing cart that is 204
C34_Poll ==
    (StatusDone /\ last.data.transaction_id # Absent /\ PolledCart # NoCart)
    => /\ last.http = StatusAnswer(PolledCart, last.data.transaction_id).http
       /\ last.body = StatusAnswer(PolledCart, last.data.transaction_id).body
       /\ cartStatus[PolledCart] = PROCESSING => last.http = 204

\* the step in which a delivery for transaction t creates the invoice of c
CreatesInvoice(c, t) ==
    /\ \E w \in Workers : /\ pc[w] = "fulfill"
                          /\ req[w].cart = c
                          /\ req[w].data.fort_id = t
                          /\ pc'[w] = "fulfill_cart"
    /\ invoices' = invoices \cup {Invoice(c, t)}
    /\ Invoice(c, t) \notin invoices
    /\ cartStatus[c] = PAID
    /\ \E x \in transactions : x.cart = c

\* the answer for (c, t) over one step: 204 stays 204 or becomes 200, and
\* becomes 200 only when a committed delivery for t creates the invoice;
\* 200 stays 200 with the same invoice
C34_Step ==
    \A c \in Carts, t \in FortIds :
        /\ StatusAnswer(c, t).http = 204
           => /\ StatusAnswer(c, t)'.http \in {204, 200}
              /\ StatusAnswer(c, t)'.http = 200 => CreatesInvoice(c, t)
        /\ StatusAnswer(c, t).http = 200
           => StatusAnswer(c, t)' = StatusAnswer(c, t)

\* C34: for a Processing cart the poll with the cart's reference and the
\* transaction id is answered 204 until a delivery for that transaction has
\* committed and created the PAID invoice, 200 with that invoice from then
\* on, and never 204 or 404 again after 200, whatever redirect, webhook or
\* poll follows.
C34_PollIsMonotone == [](C34_Poll) /\ [][C34_Step]_vars

\* cart 3 was settled by the delivery of t1 and the poll finds its invoice
W34_InvoiceAfterSettlement ==
    /\ StatusDone
    /\ PolledCart = 3
    /\ last.data.transaction_id = "t1"
    /\ last.http = 200
    /\ last.body = [invoice |-> <<"INV", "t1">>]
    /\ \E x \in transactions : x.cart = 3
    /\ fulfilled[3] = 1

StatusAnsweredStep == last' # last /\ last'.op = "status"

\* the poll changes no cart, transaction, webhook event, invoice or
\* fulfillment, and nothing of a delivery in flight
C35_Step ==
    StatusAnsweredStep => (store' = store /\ UNCHANGED <<pc, req>>)

\* the audit trail of a poll: one RESPONSE_INVALID_CART row without a cart
\* when the reference names no cart, nothing otherwise
C35_Audits ==
    StatusDone
    => /\ last.branch = "invalid_reference"
          <=> /\ last.data.transaction_id # Absent
              /\ last.data.merchant_reference # <<>>
              /\ PolledCart = NoCart
       /\ last.audits = IF last.branch = "invalid_reference"
                        THEN <<Audit(RESPONSE_INVALID_CART, NoCart,
                                     [cart_status |-> "None",
                                      required_cart_state |-> PROCESSING])>>
                        ELSE <<>>
       /\ last.calls = <<>>

\* C35: the status poll is read-only for carts, transactions and invoices,
\* whatever its input, and writes an audit row (RESPONSE_INVALID_CART with no
\* cart) only when the reference does not resolve.
C35_PollIsReadOnly == [](C35_Audits) /\ [][C35_Step]_vars

\* a poll for cart 9, which does not exist, after a settlement
W35_AuditedUnknownCart ==
    /\ StatusDone
    /\ last.data.merchant_reference = <<"2", "-", "9">>
    /\ last.http = 404
    /\ Len(last.audits) = 1
    /\ transactions # {}

-----------------------------------------------------------------------------
(* The status poll and its caller *)

\* site parts to put in front of the order part: the site of the store,
\* sites that do not exist, no site at all
SiteParts == {<<"2">>, <<"1">>, <<"7", "7">>, <<>>}

\* the polled reference with another site part
WithSitePart(reference, site_part) ==
    site_part \o SubSeq(reference, FirstDash(reference), Len(reference))

\* the answers to the polls that differ from the answered one in the caller
\* or in the site part of the reference, on the same store
Variants ==
    {StatusResponse(a, last.data.transaction_id, last.data.merchant_reference) :
        a \in BOOLEAN}
    \cup
    (IF FirstDash(last.data.merchant_reference) = 0 THEN {}
     ELSE {StatusResponse(last.data.authenticated, last.data.transaction_id,
                          WithSitePart(last.data.merchant_reference, p)) :
              p \in SiteParts})

\* C36 as stated: polls that differ only in the caller or only in the site
\* part of the reference get the same status code and the same body.
C36_SameCodeAndBody ==
    StatusDone => \A v \in Variants : v.http = last.http /\ v.body = last.body

\* C36, amended: polls that differ only in the caller or only in the site
\* part of the reference get the same status code and take the same branch;
\* they get the same body whenever the order part names a cart, so any
\* caller reads the invoice number of any cart; when the order part names no
\* cart the body of the 404 repeats the reference the caller sent.
C36_SameAnswer ==
    StatusDone
    => \A v \in Variants :
          /\ v.http = last.http
          /\ v.branch = last.branch
          /\ v.audits = last.audits
          /\ IF last.branch = "invalid_reference"
             THEN v.body = [error |-> v.data.merchant_reference]
             ELSE v.body = last.body

\* a caller that is not logged in reads the invoice number of cart 3 with a
\* reference whose site does not exist
W36_AnyCallerReadsInvoice ==
    /\ StatusDone
    /\ ~last.data.authenticated
    /\ last.data.merchant_reference = <<"1", "-", "3">>
    /\ last.http = 200
    /\ last.body = [invoice |-> <<"INV", last.data.transaction_id>>]
    /\ StatusResponse(TRUE, last.data.transaction_id, <<"2", "-", "3">>).body = last.body

-----------------------------------------------------------------------------
(* The amount of a settlement *)

\* the amount the cart was offered for at initiation
OrderAmount(c) == GetTransactionParametersBase(c, 2).amount

\* every transaction row carries the amount of the payload that made it
C37_Rows ==
    \A t \in transactions :
        /\ t.amount = t.response.amount
        /\ t.gateway_transaction_id = t.response.fort_id
        /\ CartProperty(t.response.merchant_reference).cart = t.cart

\* a valid delivery for a Processing cart goes to handle_payment whatever
\* its amount, and the row a settlement leaves is the row of its payload
C37_Step ==
    (FeedbackAnswered /\ ValidDelivery(last'.data) /\ last'.pre = PROCESSING)
    => /\ last'.calls # <<>> /\ last'.calls[1] = "handle_payment"
       /\ last'.branch \in {"fulfilled", "refresh_failed", "invoice_failed",
                            "fulfill_failed"}
          => /\ Transaction(AnsweredCart, last'.data) \in transactions
             /\ cartStatus[AnsweredCart] = PAID

\* C37: the webhook settles a Processing cart with whatever amount the
\* signed payload carries; the amount goes to handle_payment without being
\* compared with the cart's total, so the cart can be Paid with a
\* transaction row whose amount is not its total.
C37_AmountUnchecked == [](C37_Rows) /\ [][C37_Step]_vars

\* cart 1, offered for 150, is Paid with a transaction row of 999
W37_PaidWithOtherAmount ==
    /\ cartStatus[1] = PAID
    /\ fulfilled[1] = 1
    /\ \E t \in transactions : /\ t.cart = 1
                               /\ t.amount = "999"
                               /\ t.amount # OrderAmount(1)

-----------------------------------------------------------------------------
(* The cart accessor *)

\* C38: the cart accessor looks the cart up, and audits a failed lookup, on
\* every evaluation: a webhook whose merchant_reference is present and names
\* no cart writes one RECEIVED_RESPONSE row without a cart and two
\* RESPONSE_INVALID_CART rows, one for each of the two evaluations before the
\* 400; a webhook without merchant_reference writes the RECEIVED_RESPONSE
\* row only.
C38_AccessorAuditsEachTime ==
    FeedbackDone
    => /\ (last.data.merchant_reference # <<>> /\ LastCart = NoCart)
          => /\ last.http = 400
             /\ ActionsOf(last.audits)
                    = <<RESPONSE_INVALID_CART, RECEIVED_RESPONSE, RESPONSE_INVALID_CART>>
             /\ Count(ActionsOf(last.audits), RECEIVED_RESPONSE) = 1
             /\ Count(ActionsOf(last.audits), RESPONSE_INVALID_CART) = 2
             /\ \A i \in 1..Len(last.audits) : last.audits[i].cart = NoCart
             /\ last.audits[1] = InvalidCartAudit(NoCart, "None")
             /\ last.audits[3] = InvalidCartAudit(NoCart, "None")
       /\ last.data.merchant_reference = <<>>
          => /\ last.http = 400
             /\ last.audits = <<Audit(RECEIVED_RESPONSE, NoCart, [data |-> last.data])>>
       /\ LastCart # NoCart
          => Count(ActionsOf(last.audits), RESPONSE_INVALID_CART)
                 = IF last.branch = "stale" THEN 1 ELSE 0

\* a signed delivery for cart 9, which does not exist
W38_UnknownCartAuditedTwice ==
    /\ FeedbackDone
    /\ last.data.merchant_reference = <<"2", "-", "9">>
    /\ VerifySignature(RESPONSE_SHA_PHRASE, last.data)
    /\ last.http = 400
    /\ Len(last.audits) = 3

-----------------------------------------------------------------------------
(* The phrase of generate_signature *)

\* C39: generate_signature signs with the phrase it is given when that is
\* not empty and with the request phrase when it is empty or left out, so
\* signing with '' and signing with the request phrase give the same
\* signature, and no signature is made with an empty phrase.
C39_DefaultPhrase ==
    last.op = "generate_signature"
    => LET params == last.data.params
           given == last.data.sha_phrase
           used == IF given = "" THEN REQUEST_SHA_PHRASE ELSE given
       IN  /\ last.body.signature = GetSignature(used, params)
           /\ last.body.signature.phrase # ""
           /\ GenerateSignature(params, "")
                  = GenerateSignature(params, REQUEST_SHA_PHRASE)
           /\ given = ""
              => VerifySignature(REQUEST_SHA_PHRASE,
                                 [k \in DOMAIN params \cup {"signature"} |->
                                     IF k = "signature" THEN last.body.signature
                                     ELSE params[k]])

\* the parameters of cart 3 signed without a phrase
W39_SignedWithoutPhrase ==
    /\ last.op = "generate_signature"
    /\ last.data.sha_phrase = ""
    /\ last.data.params = GetTransactionParametersBase(3, 2)
    /\ last.body.signature.phrase = REQUEST_SHA_PHRASE

=============================================================================
